---- MODULE Spec2Model ----
(***************************************************************************)
(* A model of the STORM article pipeline (knowledge_storm): the evidence   *)
(* digest and per-node section synthesis of ArticleGenerationModule, the   *)
(* persona list of StormPersonaGenerator, the simulated conversation of    *)
(* ConvSimulator / TopicExpert, AnswerQuestionModule and the research run  *)
(* of StormKnowledgeCurationModule.                                        *)
(*                                                                         *)
(* Text is modelled structurally.  A word is a sequence of pieces, a line  *)
(* is a sequence of characters, and a string that is split or joined on    *)
(* "\n" is the sequence of its lines (the empty string is one empty line). *)
(* Every component has its own specification; the variables of the other   *)
(* components stay at their idle values.                                   *)
(***************************************************************************)
EXTENDS Integers, Sequences, FiniteSets, TLC

VARIABLES
    \* ---- ArticleGenerationModule._get_cited_information_string ----
    all_citation_index,   \* the citation set handed to the digest builder
    info_uuid_to_info_dict, \* knowledge_base.info_uuid_to_info_dict
    max_words,            \* the word budget
    d_pc,                 \* "idle" | "ready" | "returned" | "raised"
    d_information,        \* the list `information` that is joined and returned
    \* ---- KnowledgeBase / KnowledgeNode, as gen_section and forward use them ----
    tree,                 \* [parent, name]: node i > 0 has parent tree.parent[i]; 0 is the root
    content,              \* node.content: the node's own citation indices
    synthesize_output,    \* node.synthesize_output: None or a string
    need_regenerate_synthesize_output, \* node.need_regenerate_synthesize_output
    write_section_calls,  \* per node, the calls of self.write_section made so far
    \* ---- ArticleGenerationModule.gen_section, called directly ----
    g_pc,                 \* "idle" | "ready"
    g_calls,              \* the gen_section calls made so far
    g_node,               \* the node argument of the latest call (NoNode for None)
    g_ret,                \* what the latest call returned
    g_generated,          \* whether the latest call reached self.write_section
    g_settled,            \* per node, what the first call since its last citation
                          \* change returned (None before any such call)
    \* ---- ArticleGenerationModule.forward ----
    f_pc,                 \* "idle" | "ready" | "running" | "done"
    f_pass,               \* 1 for the first forward call on the tree, 2 for the second
    f_gen,                \* the generator: its fixed cleaned output for each node
    f_task,               \* per node, its future: "queued" | "generating" | "finished" | "collected"
    f_result,             \* per node, the (path, node_gen_paragraph) its future holds
    node_to_paragraph,    \* the dict of forward, as a set of <<path, paragraph>>
    f_doc,                \* what forward returned
    f_first_doc,          \* what the first forward call returned
    \* ---- StormPersonaGenerator.generate_persona ----
    p_pc,                 \* "idle" | "ready" | "returned"
    gen_persona_output,   \* the lines of the persona generator's output
    max_num_persona,      \* the argument max_num_persona
    personas,             \* create_writer_with_persona(...).personas
    considered_personas,  \* what generate_persona returned
    \* ---- TopicExpert.forward and AnswerQuestionModule.forward, called directly ----
    e_pc,                 \* TopicExpert.forward: "idle" | "ready" | "returned" | "raised"
    e_out,                \* the outcome of the TopicExpert.forward call
    a_pc,                 \* AnswerQuestionModule.forward: "idle" | "ready" | "returned" | "raised"
    a_out,                \* the outcome of the AnswerQuestionModule.forward call
    \* ---- ConvSimulator.forward ----
    max_turn,             \* self.max_turn
    ground_truth_url,     \* the ground_truth_url argument
    conv,                 \* the running ConvSimulator.forward call
    \* ---- StormKnowledgeCurationModule.research ----
    r_pc,                 \* "idle" | "ready" | "gathering" | "unwinding" | "done" | "raised"
    max_thread_num,       \* self.max_thread_num
    r_personas,           \* considered_personas of research
    r_tasks,              \* the futures of _run_conversation, in submission order
    conversations,        \* the list _run_conversation builds
    information_table,    \* what research returns
    r_callbacks,          \* the callback_handler events, in call order
    r_disable_perspective,    \* the disable_perspective argument of research
    persona_generation_calls, \* the calls of _get_considered_personas
    \* ---- main of examples/storm_examples/run_storm_wiki.py ----
    m_pc,                 \* "idle" | "start" | "main" | "selected" | "run" | "done" | "raised" | "usage_exit"
    args,                 \* the parsed command line: retriever and the stage flags
    rm,                   \* the retriever class main built, "" before
    runner,               \* whether STORMWikiRunner was constructed
    m_stage,              \* the index of the next stage runner.run considers
    m_started,            \* the pipeline stages started, in order
    m_error,              \* the exception that ended the run, "" if none
    \* ---- StormArticlePolishingModule.polish_article ----
    po_pc,                \* "idle" | "ready" | "lead" | "page" | "returned" | "raised"
    remove_duplicate,     \* the argument remove_duplicate
    draft_page,           \* draft_article.to_string()
    write_lead_calls,     \* the calls of self.write_lead made so far
    polish_page_calls,    \* the calls of self.polish_page made so far
    lead_section,         \* polish_result.lead_section
    page,                 \* polish_result.page
    polished_article      \* the text polish_article joins, <<>> before

dvars == <<all_citation_index, info_uuid_to_info_dict, max_words, d_pc, d_information>>
kvars == <<tree, content, synthesize_output, need_regenerate_synthesize_output,
           write_section_calls>>
gvars == <<g_pc, g_calls, g_node, g_ret, g_generated, g_settled>>
fvars == <<f_pc, f_pass, f_gen, f_task, f_result, node_to_paragraph, f_doc, f_first_doc>>
pvars == <<p_pc, gen_persona_output, max_num_persona, personas, considered_personas>>
evars == <<e_pc, e_out, a_pc, a_out>>
cvars == <<max_turn, ground_truth_url, conv>>
rvars == <<r_pc, max_thread_num, r_personas, r_tasks, conversations,
           information_table, r_callbacks, r_disable_perspective,
           persona_generation_calls>>
mvars == <<m_pc, args, rm, runner, m_stage, m_started, m_error>>
povars == <<po_pc, remove_duplicate, draft_page, write_lead_calls, polish_page_calls, lead_section, page, polished_article>>

vars == <<dvars, kvars, gvars, fvars, pvars, evars, cvars, rvars, mvars, povars>>

\* what the steps of one component leave unchanged
digest_rest == <<kvars, gvars, fvars, pvars, evars, cvars, rvars, mvars, povars>>
gen_rest == <<dvars, fvars, pvars, evars, cvars, rvars, mvars, povars>>
forward_rest == <<dvars, gvars, pvars, evars, cvars, rvars, mvars, povars>>
persona_rest == <<dvars, kvars, gvars, fvars, evars, cvars, rvars, mvars, povars>>
answer_rest == <<dvars, kvars, gvars, fvars, pvars, cvars, rvars, mvars, povars>>
research_rest == <<dvars, kvars, gvars, fvars, pvars, evars, mvars, povars>>
conv_rest == <<dvars, kvars, gvars, fvars, pvars, evars, rvars, mvars, povars>>
main_rest == <<dvars, kvars, gvars, fvars, pvars, evars, cvars, rvars, povars>>
polish_rest == <<dvars, kvars, gvars, fvars, pvars, evars, cvars, rvars, mvars>>

\* ------------------------------------------------------------------------
\* Bounds of the model
\* ------------------------------------------------------------------------
MaxIndex == 3
MaxWords == 14
\* the gen_section calls of one behaviour of GenSpec
MaxCalls == 3
\* the lines of a persona generator output, and the largest max_num_persona
MaxLines == 3
MaxPersona == 3

\* ------------------------------------------------------------------------
\* Generic helpers
\* ------------------------------------------------------------------------
Min(a, b) == IF a < b THEN a ELSE b
Max(a, b) == IF a > b THEN a ELSE b

SetMin(S) == CHOOSE x \in S : \A y \in S : x <= y

RECURSIVE SortedSeq(_)
\* sorted(list(S)) for a finite set of integers
SortedSeq(S) ==
    IF S = {} THEN <<>>
    ELSE LET m == SetMin(S) IN <<m>> \o SortedSeq(S \ {m})

RECURSIVE SumLen(_)
\* the number of whitespace-separated words of "\n".join(entries)
SumLen(entries) ==
    IF entries = <<>> THEN 0
    ELSE Len(Head(entries)) + SumLen(Tail(entries))

\* ------------------------------------------------------------------------
\* Idle values of the components a specification does not run
\* ------------------------------------------------------------------------
KnowledgeIdle ==
    /\ tree = [parent |-> <<>>, name |-> <<>>]
    /\ content = <<>>
    /\ synthesize_output = <<>>
    /\ need_regenerate_synthesize_output = <<>>
    /\ write_section_calls = <<>>

GenIdle ==
    /\ g_pc = "idle"
    /\ g_calls = 0
    /\ g_node = 0
    /\ g_ret = <<>>
    /\ g_generated = FALSE
    /\ g_settled = <<>>

ForwardIdle ==
    /\ f_pc = "idle"
    /\ f_pass = 0
    /\ f_gen = <<>>
    /\ f_task = <<>>
    /\ f_result = <<>>
    /\ node_to_paragraph = {}
    /\ f_doc = <<>>
    /\ f_first_doc = <<>>

PersonaIdle ==
    /\ p_pc = "idle"
    /\ gen_persona_output = <<>>
    /\ max_num_persona = 0
    /\ personas = <<>>
    /\ considered_personas = <<>>

ResearchIdle ==
    /\ r_pc = "idle"
    /\ max_thread_num = 0
    /\ r_personas = <<>>
    /\ r_tasks = <<>>
    /\ conversations = <<>>
    /\ information_table = <<>>
    /\ r_callbacks = <<>>
    /\ r_disable_perspective = TRUE
    /\ persona_generation_calls = 0

ConvIdle ==
    /\ max_turn = 0
    /\ ground_truth_url = ""
    /\ conv = <<>>

AnswerIdle ==
    /\ e_pc = "idle"
    /\ e_out = <<>>
    /\ a_pc = "idle"
    /\ a_out = <<>>

DigestIdle ==
    /\ all_citation_index = {}
    /\ info_uuid_to_info_dict = <<>>
    /\ max_words = 0
    /\ d_pc = "idle"
    /\ d_information = <<>>

MainIdle ==
    /\ m_pc = "idle"
    /\ args = <<>>
    /\ rm = ""
    /\ runner = FALSE
    /\ m_stage = 0
    /\ m_started = <<>>
    /\ m_error = ""

PolishIdle ==
    /\ po_pc = "idle"
    /\ remove_duplicate = FALSE
    /\ draft_page = ""
    /\ write_lead_calls = 0
    /\ polish_page_calls = 0
    /\ lead_section = <<>>
    /\ page = ""
    /\ polished_article = <<>>

\* the components a specification does not run
PolishRestIdle ==
    /\ KnowledgeIdle
    /\ GenIdle
    /\ ForwardIdle
    /\ PersonaIdle
    /\ ResearchIdle
    /\ ConvIdle
    /\ AnswerIdle
    /\ DigestIdle
    /\ MainIdle
MainRestIdle ==
    /\ KnowledgeIdle
    /\ GenIdle
    /\ ForwardIdle
    /\ PersonaIdle
    /\ ResearchIdle
    /\ ConvIdle
    /\ AnswerIdle
    /\ DigestIdle /\ PolishIdle
DigestRestIdle == KnowledgeIdle /\ GenIdle /\ ForwardIdle /\ PersonaIdle /\ AnswerIdle /\ ConvIdle /\ ResearchIdle /\ MainIdle /\ PolishIdle
GenRestIdle == DigestIdle /\ ForwardIdle /\ PersonaIdle /\ AnswerIdle /\ ConvIdle /\ ResearchIdle /\ MainIdle /\ PolishIdle
ForwardRestIdle == DigestIdle /\ GenIdle /\ PersonaIdle /\ AnswerIdle /\ ConvIdle /\ ResearchIdle /\ MainIdle /\ PolishIdle
PersonaRestIdle == DigestIdle /\ KnowledgeIdle /\ GenIdle /\ ForwardIdle /\ AnswerIdle /\ ConvIdle /\ ResearchIdle /\ MainIdle /\ PolishIdle
ConvRestIdle ==
    /\ DigestIdle /\ KnowledgeIdle /\ GenIdle /\ ForwardIdle /\ PersonaIdle
    /\ AnswerIdle /\ ResearchIdle /\ MainIdle /\ PolishIdle
ResearchRestIdle ==
    DigestIdle /\ KnowledgeIdle /\ GenIdle /\ ForwardIdle /\ PersonaIdle /\ AnswerIdle /\ MainIdle /\ PolishIdle
AnswerRestIdle == DigestIdle /\ KnowledgeIdle /\ GenIdle /\ ForwardIdle /\ PersonaIdle /\ ConvIdle /\ ResearchIdle /\ MainIdle /\ PolishIdle

\* ------------------------------------------------------------------------
\* The evidence digest: _get_cited_information_string
\* ------------------------------------------------------------------------
\* A text fragment as the sequence of its whitespace-separated words.
Snippets == { <<>>, << <<"s1">> >>, << <<"s1">>, <<"s2">>, <<"s3">> >> }
Questions == { <<>>, << <<"q1">> >> }
Queries == { << <<"y1">> >> }

\* Information: snippets is the list info.snippets, meta the question/query.
Informations ==
    [snippets : { <<>> } \cup { <<s>> : s \in Snippets },
     question : Questions, query : Queries]

\* f"{text}{suffix}" followed by split(): the suffix sticks to the last word,
\* or is a word of its own when the text has no word.
WithSuffix(text, suffix) ==
    IF text = <<>> THEN << <<suffix>> >>
    ELSE SubSeq(text, 1, Len(text) - 1) \o << Append(text[Len(text)], suffix) >>

\* info_text.split() of line 31
InfoTextWords(index, info) ==
    << <<"[", index, "]:">> >> \o info.snippets[1] \o << <<"(Question:">> >>
        \o WithSuffix(info.question, ".") \o << <<"Query:">> >>
        \o WithSuffix(info.query, ")")

\* line 33, a mutant of it: the running count is forgotten
OverBudgetNoSum(cur_snippet_length, cur_word_count, budget) ==
    cur_snippet_length > budget

\* line 33
OverBudget(cur_snippet_length, cur_word_count, budget) ==
    cur_snippet_length + cur_word_count > budget

RECURSIVE DigestLoop(_, _, _, _, _, _)

\* line 34, a mutant of it: `continue` where the code has `break`
OnOverBudgetContinue(order, i, cur_word_count, information, dict, budget) ==
    DigestLoop(order, i + 1, cur_word_count, information, dict, budget)

\* line 34: break
OnOverBudget(order, i, cur_word_count, information, dict, budget) ==
    [raised |-> "", information |-> information]

\* lines 28-36: one iteration per index of the sorted citation set
DigestLoop(order, i, cur_word_count, information, dict, budget) ==
    IF i > Len(order) THEN [raised |-> "", information |-> information]
    ELSE IF order[i] \notin DOMAIN dict
        THEN [raised |-> "KeyError", information |-> information]
    ELSE IF dict[order[i]].snippets = <<>>
        THEN [raised |-> "IndexError", information |-> information]
    ELSE LET info_text == InfoTextWords(order[i], dict[order[i]])
             cur_snippet_length == Len(info_text)
         IN IF OverBudget(cur_snippet_length, cur_word_count, budget)
            THEN OnOverBudget(order, i, cur_word_count, information, dict, budget)
            ELSE DigestLoop(order, i + 1, cur_word_count + cur_snippet_length,
                            Append(information, info_text), dict, budget)

\* lines 20-37
CitedInformation(citations, dict, budget) ==
    DigestLoop(SortedSeq(citations), 1, 0, <<>>, dict, budget)


InfoDicts ==
    UNION { [K -> Informations] : K \in SUBSET (1 .. MaxIndex) }

DigestInit ==
    /\ all_citation_index \in SUBSET (1 .. MaxIndex)
    /\ info_uuid_to_info_dict \in InfoDicts
    /\ max_words \in 0 .. MaxWords
    /\ d_pc = "ready"
    /\ d_information = <<>>
    /\ DigestRestIdle

\* a call of _get_cited_information_string that returns
GetCitedInformationString ==
    /\ d_pc = "ready"
    /\ LET r == CitedInformation(all_citation_index, info_uuid_to_info_dict, max_words)
       IN /\ r.raised = ""
          /\ d_pc' = "returned"
          /\ d_information' = r.information
    /\ UNCHANGED <<all_citation_index, info_uuid_to_info_dict, max_words>>
    /\ UNCHANGED digest_rest

\* a call that raises at line 29 or 30
GetCitedInformationStringRaises ==
    /\ d_pc = "ready"
    /\ LET r == CitedInformation(all_citation_index, info_uuid_to_info_dict, max_words)
       IN /\ r.raised # ""
          /\ d_pc' = "raised"
          /\ d_information' = r.information
    /\ UNCHANGED <<all_citation_index, info_uuid_to_info_dict, max_words>>
    /\ UNCHANGED digest_rest

DigestNext ==
    \/ GetCitedInformationString
    \/ GetCitedInformationStringRaises

DigestSpec == DigestInit /\ [][DigestNext]_vars

\* ------------------------------------------------------------------------
\* Properties of the evidence digest
\* ------------------------------------------------------------------------
\* the citation index an entry of the digest was built from: "[index]:"
EntryIndex(entry) == entry[1][2]

DigestIndices == { EntryIndex(d_information[j]) : j \in 1 .. Len(d_information) }

\* C4: whenever _get_cited_information_string returns, the digest holds at
\* most max_words words, counted over the entries it includes, for every
\* citation set, every knowledge base and every max_words >= 0.
C4_DigestWithinBudget ==
    d_pc = "returned" => SumLen(d_information) <= max_words

\* a returned digest that holds an entry and was truncated
C4_Witness ==
    /\ d_pc = "returned"
    /\ Len(d_information) >= 1
    /\ Len(d_information) < Cardinality(all_citation_index)
    /\ max_words > 0

\* C5: a returned digest is the complete entries of a prefix of the citation
\* indices in ascending order; the first index left out is the first whose
\* entry would push the running word count over the budget, and nothing
\* after it is included, whether it would fit or not.
C5_WholePrefixOnly ==
    d_pc = "returned" =>
        /\ \A j \in 1 .. Len(d_information) :
              LET index == EntryIndex(d_information[j])
              IN /\ index \in all_citation_index
                 /\ index \in DOMAIN info_uuid_to_info_dict
                 /\ d_information[j] =
                        InfoTextWords(index, info_uuid_to_info_dict[index])
                 /\ \A i \in 1 .. (j - 1) : EntryIndex(d_information[i]) < index
        /\ \A index \in DigestIndices : \A c \in all_citation_index :
              c < index => c \in DigestIndices
        /\ all_citation_index \ DigestIndices # {} =>
              LET first == SetMin(all_citation_index \ DigestIndices)
              IN Len(InfoTextWords(first, info_uuid_to_info_dict[first]))
                     + SumLen(d_information) > max_words

\* a truncated digest where a later entry would still have fitted
C5_Witness ==
    /\ d_pc = "returned"
    /\ Len(d_information) >= 1
    /\ \E c \in all_citation_index \ DigestIndices :
          /\ c # SetMin(all_citation_index \ DigestIndices)
          /\ c \in DOMAIN info_uuid_to_info_dict
          /\ info_uuid_to_info_dict[c].snippets # <<>>
          /\ Len(InfoTextWords(c, info_uuid_to_info_dict[c]))
                 + SumLen(d_information) <= max_words

\* ------------------------------------------------------------------------
\* Strings, the knowledge tree and its nodes
\* ------------------------------------------------------------------------
\* "" as the sequence of its lines, and Python's None
EmptyStr == << <<>> >>
None == <<>>
\* the node argument None of gen_section
NoNode == 0 - 1

NameA == <<"A">>
NameB == <<"B">>
RootName == <<"r", "o", "o", "t">>

\* one-line paragraphs, and paragraphs that open with a line naming a section
TextC == << <<"c">> >>
TextX == << <<"x">> >>
TextY == << <<"y">> >>
TextBoldA == << <<"*", "*", "A", "*", "*">>, <<"x">> >>
TextHashA == << <<"#", "#", " ", "A">>, <<"y">> >>

\* knowledge trees: root 0 and the nodes 1 .. Len(parent), children in id order
TreeAB == [parent |-> <<0, 0>>, name |-> <<NameA, NameB>>]
TreeAA == [parent |-> <<0, 0>>, name |-> <<NameA, NameA>>]
TreeNested == [parent |-> <<0, 0, 1>>, name |-> <<NameA, NameB, NameB>>]

NodesOf(t) == 0 .. Len(t.parent)

NodeName(t, n) == IF n = 0 THEN RootName ELSE t.name[n]

\* node.children, in order
Children(t, n) == SortedSeq({ c \in 1 .. Len(t.parent) : t.parent[c] = n })

\* the citation indices a node may hold
CitationIds == { 1, 2 }
Contents == { {}, {1} }

\* (synthesize_output, need_regenerate_synthesize_output) of a node: fresh,
\* synthesized, synthesized and then given a new citation, synthesized empty
CacheStates ==
    { <<None, TRUE>>, <<TextC, FALSE>>, <<TextC, TRUE>>, <<EmptyStr, FALSE>> }

\* KnowledgeNode.insert_information: a new citation marks the cache stale
InsertInformation(n, c) ==
    /\ c \notin content[n]
    /\ content' = [content EXCEPT ![n] = @ \cup {c}]
    /\ need_regenerate_synthesize_output' =
           [need_regenerate_synthesize_output EXCEPT ![n] = TRUE]

\* ------------------------------------------------------------------------
\* ArticleGenerationModule.gen_section
\* ------------------------------------------------------------------------
\* what clean_up_section(self.write_section(...).output) can evaluate to
GenOutputs == { EmptyStr, TextX }

\* lines 44-48, a mutant of them: the `not` of the stale test is lost
CacheHitStaleInverted(output, stale) ==
    output # None /\ output # EmptyStr /\ stale

\* lines 44-48, a mutant of them: the stale flag is not looked at
CacheHitIgnoresStale(output, stale) == output # None /\ output # EmptyStr

\* lines 44-48: a cached output that is not None, truthy, and not stale
CacheHit(output, stale) ==
    output # None /\ output # EmptyStr /\ ~stale

\* line 42, a mutant of it: only None short-circuits
ShortCircuitNoneOnly(n) == n = NoNode

\* line 42
ShortCircuit(n) == n = NoNode \/ content[n] = {}

\* whether a call on n reaches self.write_section (lines 50-59); the digest
\* of lines 50-53 is the generator's input and changes no state
NeedsGeneration(n) ==
    /\ ~ShortCircuit(n)
    /\ ~CacheHit(synthesize_output[n], need_regenerate_synthesize_output[n])

\* lines 42-49: the value returned without generation
EarlyReturn(n) ==
    IF ShortCircuit(n) THEN EmptyStr ELSE synthesize_output[n]

\* lines 39-49: a gen_section call that returns before the generator
GenSectionEarly(n) ==
    /\ g_pc = "ready"
    /\ g_calls < MaxCalls
    /\ ~NeedsGeneration(n)
    /\ g_calls' = g_calls + 1
    /\ g_node' = n
    /\ g_ret' = EarlyReturn(n)
    /\ g_generated' = FALSE
    /\ g_settled' = IF ~ShortCircuit(n) /\ g_settled[n] = None
                    THEN [g_settled EXCEPT ![n] = EarlyReturn(n)]
                    ELSE g_settled
    /\ UNCHANGED <<g_pc, kvars, gen_rest>>

\* lines 39-62: a gen_section call that generates; out is the cleaned output
GenSectionGenerate(n, out) ==
    /\ g_pc = "ready"
    /\ g_calls < MaxCalls
    /\ NeedsGeneration(n)
    /\ write_section_calls' = [write_section_calls EXCEPT ![n] = @ + 1]
    /\ synthesize_output' = [synthesize_output EXCEPT ![n] = out]
    /\ need_regenerate_synthesize_output' =
           [need_regenerate_synthesize_output EXCEPT ![n] = FALSE]
    /\ g_calls' = g_calls + 1
    /\ g_node' = n
    /\ g_ret' = out
    /\ g_generated' = TRUE
    /\ g_settled' = IF g_settled[n] = None
                    THEN [g_settled EXCEPT ![n] = out]
                    ELSE g_settled
    /\ UNCHANGED <<g_pc, tree, content, gen_rest>>

\* between two calls the knowledge base gains a citation on node n
GenInsertInformation(n, c) ==
    /\ g_pc = "ready"
    /\ InsertInformation(n, c)
    /\ g_settled' = [g_settled EXCEPT ![n] = None]
    /\ UNCHANGED <<tree, synthesize_output, write_section_calls>>
    /\ UNCHANGED <<g_pc, g_calls, g_node, g_ret, g_generated, gen_rest>>

GenInit ==
    /\ tree \in { TreeAB }
    /\ content \in [NodesOf(tree) -> Contents]
    /\ \E cache \in [NodesOf(tree) -> CacheStates] :
          /\ synthesize_output = [n \in NodesOf(tree) |-> cache[n][1]]
          /\ need_regenerate_synthesize_output = [n \in NodesOf(tree) |-> cache[n][2]]
    /\ write_section_calls = [n \in NodesOf(tree) |-> 0]
    /\ g_pc = "ready"
    /\ g_calls = 0
    /\ g_node = NoNode
    /\ g_ret = None
    /\ g_generated = FALSE
    /\ g_settled = [n \in NodesOf(tree) |-> None]
    /\ GenRestIdle

GenNext ==
    \/ \E n \in NodesOf(tree) \cup {NoNode} : GenSectionEarly(n)
    \/ \E n \in NodesOf(tree) : \E out \in GenOutputs : GenSectionGenerate(n, out)
    \/ \E n \in NodesOf(tree) : \E c \in CitationIds : GenInsertInformation(n, c)

GenSpec == GenInit /\ [][GenNext]_vars

\* ------------------------------------------------------------------------
\* Properties of gen_section
\* ------------------------------------------------------------------------
\* the step is a gen_section call with node argument n
IsGenSectionCall(n) == g_calls' = g_calls + 1 /\ g_node' = n

\* C1 as stated: once a call on a node with content has completed, a later
\* call on it, with no citation change in between and the node not marked
\* stale, returns what the first call returned and does not reach the
\* generator, whatever string the generator produced.
C1_IdempotentForEveryString ==
    [][\A n \in NodesOf(tree) :
          ( /\ IsGenSectionCall(n)
            /\ content[n] # {}
            /\ g_settled[n] # None
            /\ ~need_regenerate_synthesize_output[n] )
          => ( /\ g_ret' = g_settled[n]
               /\ write_section_calls' = write_section_calls )]_vars

\* C1 as amended: the same, provided the first call returned a non-empty
\* string (an empty output is never reused: line 46 tests its truth value).
C1_IdempotentForNonEmpty ==
    [][\A n \in NodesOf(tree) :
          ( /\ IsGenSectionCall(n)
            /\ content[n] # {}
            /\ g_settled[n] # None
            /\ g_settled[n] # EmptyStr
            /\ ~need_regenerate_synthesize_output[n] )
          => ( /\ g_ret' = g_settled[n]
               /\ write_section_calls' = write_section_calls )]_vars

\* a call that returned, without generating, the string an earlier call on
\* the same node had generated
C1_Witness ==
    /\ g_calls >= 2
    /\ g_node # NoNode
    /\ content[g_node] # {}
    /\ ~g_generated
    /\ g_ret = TextX
    /\ g_settled[g_node] = TextX
    /\ write_section_calls[g_node] = 1

\* C2: a gen_section call whose node is None or has no content returns "",
\* does not reach the generator and leaves synthesize_output and
\* need_regenerate_synthesize_output as they were, whatever they hold.
C2_EmptyContentShortCircuit ==
    [][\A n \in NodesOf(tree) \cup {NoNode} :
          ( /\ IsGenSectionCall(n)
            /\ (n = NoNode \/ content[n] = {}) )
          => ( /\ g_ret' = EmptyStr
               /\ write_section_calls' = write_section_calls
               /\ synthesize_output' = synthesize_output
               /\ need_regenerate_synthesize_output' =
                      need_regenerate_synthesize_output )]_vars

\* a call on a node without content that holds a stale cached output
C2_Witness ==
    /\ g_calls >= 1
    /\ g_node # NoNode
    /\ content[g_node] = {}
    /\ synthesize_output[g_node] = TextC
    /\ need_regenerate_synthesize_output[g_node]
    /\ g_ret = EmptyStr
    /\ ~g_generated

\* ------------------------------------------------------------------------
\* ArticleGenerationModule.forward: fan-out over the nodes, then assembly
\* ------------------------------------------------------------------------
\* ThreadPoolExecutor(max_workers=5)
MaxWorkers == 5

Trees == { TreeAB, TreeAA, TreeNested }

\* fixed generators: the cleaned output for nodes 1, 2, 3
Generators ==
    { <<TextX, TextY, TextBoldA>>,
      <<TextBoldA, TextHashA, EmptyStr>>,
      <<EmptyStr, TextX, TextX>> }

GeneratorOutput(n) == IF n = 0 THEN TextX ELSE f_gen[n]

RECURSIVE PreOrder(_, _)
RECURSIVE PreOrderAll(_, _)
PreOrderAll(t, kids) ==
    IF kids = <<>> THEN <<>>
    ELSE PreOrder(t, Head(kids)) \o PreOrderAll(t, Tail(kids))
\* knowledge_base.collect_all_nodes(): every node, the root first
PreOrder(t, n) == <<n>> \o PreOrderAll(t, Children(t, n))

AllNodes == PreOrder(tree, 0)

\* the position of node n in all_nodes: its place in the executor's queue
QueuePosition(n) == CHOOSE i \in 1 .. Len(AllNodes) : AllNodes[i] = n

\* str.strip() of a line
RECURSIVE LStrip(_)
LStrip(line) ==
    IF line # <<>> /\ Head(line) = " " THEN LStrip(Tail(line)) ELSE line
RECURSIVE RStrip(_)
RStrip(line) ==
    IF line # <<>> /\ line[Len(line)] = " "
    THEN RStrip(SubSeq(line, 1, Len(line) - 1)) ELSE line
Strip(line) == RStrip(LStrip(line))

\* str.replace(ch, "")
RECURSIVE RemoveChar(_, _)
RemoveChar(line, ch) ==
    IF line = <<>> THEN <<>>
    ELSE IF Head(line) = ch THEN RemoveChar(Tail(line), ch)
    ELSE <<Head(line)>> \o RemoveChar(Tail(line), ch)

\* "\n".join(lines), as the lines of the joined string
JoinLines(lines) == IF lines = <<>> THEN EmptyStr ELSE lines

\* lines 73-76: drop a first line that repeats the node's name
StripNameLine(n, node_gen_paragraph) ==
    LET lines == node_gen_paragraph
    IN IF RemoveChar(RemoveChar(Strip(lines[1]), "*"), "#") = NodeName(tree, n)
       THEN JoinLines(Tail(lines))
       ELSE JoinLines(lines)

RECURSIVE PathNames(_, _)
\* node.get_path_from_root(): the names from the root down to the node
PathNames(t, n) ==
    IF n = 0 THEN <<RootName>>
    ELSE Append(PathNames(t, t.parent[n]), NodeName(t, n))

RECURSIVE JoinArrow(_)
\* " -> ".join(names)
JoinArrow(names) ==
    IF Len(names) = 1 THEN names[1]
    ELSE JoinArrow(SubSeq(names, 1, Len(names) - 1))
             \o <<" ", "-", ">", " ">> \o names[Len(names)]

\* line 77 / line 96
PathString(n) == JoinArrow(PathNames(tree, n))

DictPut(dict, key, value) ==
    { e \in dict : e[1] # key } \cup { <<key, value>> }

DictGet(dict, key) == (CHOOSE e \in dict : e[1] = key)[2]

\* line 94, a mutant of it: one marker whatever the level
HashTagFlat(level) == <<"#", " ">>

\* "#" * level + " "
HashTag(level) == [i \in 1 .. level |-> "#"] \o <<" ">>

RECURSIVE Helper(_, _, _)
RECURSIVE HelperAll(_, _, _)
HelperAll(dict, kids, level) ==
    IF kids = <<>> THEN <<>>
    ELSE Helper(dict, Head(kids), level) \o HelperAll(dict, Tail(kids), level)
\* lines 92-101, flattened to the lines of "\n".join(to_return)
Helper(dict, cur_root, level) ==
    << HashTag(level) \o NodeName(tree, cur_root) >>
        \o DictGet(dict, PathString(cur_root))
        \o HelperAll(dict, Children(tree, cur_root), level + 1)

\* lines 103-107
AssembledDocument(dict) == JoinLines(HelperAll(dict, Children(tree, 0), 1))

\* lines 80-85: every node is submitted; the dict starts empty
SubmitAll ==
    /\ f_task' = [n \in NodesOf(tree) |-> "queued"]
    /\ f_result' = [n \in NodesOf(tree) |-> None]
    /\ node_to_paragraph' = {}

\* lines 64-85: the first forward call on the tree
ForwardStart ==
    /\ f_pc = "ready"
    /\ f_pc' = "running"
    /\ SubmitAll
    /\ UNCHANGED <<f_pass, f_gen, f_doc, f_first_doc, kvars, forward_rest>>

\* a worker takes the next future of the queue (FIFO)
Dequeued(n) ==
    /\ f_pc = "running"
    /\ f_task[n] = "queued"
    /\ \A m \in NodesOf(tree) : QueuePosition(m) < QueuePosition(n) => f_task[m] # "queued"
    /\ Cardinality({ m \in NodesOf(tree) : f_task[m] = "generating" }) < MaxWorkers

\* lines 69-78 with gen_section returning at line 43 or 49
TaskReturnEarly(n) ==
    /\ Dequeued(n)
    /\ ~NeedsGeneration(n)
    /\ f_task' = [f_task EXCEPT ![n] = "finished"]
    /\ f_result' = [f_result EXCEPT ![n] = <<PathString(n), StripNameLine(n, EarlyReturn(n))>>]
    /\ UNCHANGED <<f_pc, f_pass, f_gen, node_to_paragraph, f_doc, f_first_doc>>
    /\ UNCHANGED <<kvars, forward_rest>>

\* lines 69-72, 42-58: the task enters self.write_section
TaskBeginGenerate(n) ==
    /\ Dequeued(n)
    /\ NeedsGeneration(n)
    /\ f_task' = [f_task EXCEPT ![n] = "generating"]
    /\ write_section_calls' = [write_section_calls EXCEPT ![n] = @ + 1]
    /\ UNCHANGED <<f_pc, f_pass, f_gen, f_result, node_to_paragraph, f_doc, f_first_doc>>
    /\ UNCHANGED <<tree, content, synthesize_output, need_regenerate_synthesize_output>>
    /\ UNCHANGED forward_rest

\* line 60, a mutant of it: the output is stored in every node that has
\* the path string of the node
StoreOutputByPath(outputs, n, out) ==
    [m \in DOMAIN outputs |-> IF PathString(m) = PathString(n) THEN out ELSE outputs[m]]

\* line 60: node.synthesize_output = synthesize_output
StoreOutput(outputs, n, out) == [outputs EXCEPT ![n] = out]

\* lines 55-62, 73-78: the generator returns, the node caches the output
TaskEndGenerate(n) ==
    /\ f_pc = "running"
    /\ f_task[n] = "generating"
    /\ synthesize_output' = StoreOutput(synthesize_output, n, GeneratorOutput(n))
    /\ need_regenerate_synthesize_output' =
           [need_regenerate_synthesize_output EXCEPT ![n] = FALSE]
    /\ f_task' = [f_task EXCEPT ![n] = "finished"]
    /\ f_result' = [f_result EXCEPT ![n] =
                        <<PathString(n), StripNameLine(n, GeneratorOutput(n))>>]
    /\ UNCHANGED <<f_pc, f_pass, f_gen, node_to_paragraph, f_doc, f_first_doc>>
    /\ UNCHANGED <<tree, content, write_section_calls, forward_rest>>

\* lines 88-90: as_completed yields a finished future
Collect(n) ==
    /\ f_pc = "running"
    /\ f_task[n] = "finished"
    /\ f_task' = [f_task EXCEPT ![n] = "collected"]
    /\ node_to_paragraph' = DictPut(node_to_paragraph, f_result[n][1], f_result[n][2])
    /\ UNCHANGED <<f_pc, f_pass, f_gen, f_result, f_doc, f_first_doc>>
    /\ UNCHANGED <<kvars, forward_rest>>

\* lines 92-107: every future was collected; the document is assembled
Assemble ==
    /\ f_pc = "running"
    /\ \A n \in NodesOf(tree) : f_task[n] = "collected"
    /\ f_doc' = AssembledDocument(node_to_paragraph)
    /\ f_pc' = "done"
    /\ UNCHANGED <<f_pass, f_gen, f_task, f_result, node_to_paragraph, f_first_doc>>
    /\ UNCHANGED <<kvars, forward_rest>>

\* forward is called a second time on the same tree
ForwardAgain ==
    /\ f_pc = "done"
    /\ f_pass = 1
    /\ f_pass' = 2
    /\ f_first_doc' = f_doc
    /\ f_pc' = "running"
    /\ SubmitAll
    /\ UNCHANGED <<f_gen, f_doc, kvars, forward_rest>>

ForwardInit ==
    /\ tree \in Trees
    /\ content \in { c \in [NodesOf(tree) -> Contents] : c[0] = {} }
    /\ \E cache \in [NodesOf(tree) -> CacheStates] :
          /\ cache[0] = <<None, TRUE>>
          /\ synthesize_output = [n \in NodesOf(tree) |-> cache[n][1]]
          /\ need_regenerate_synthesize_output = [n \in NodesOf(tree) |-> cache[n][2]]
    /\ write_section_calls = [n \in NodesOf(tree) |-> 0]
    /\ f_pc = "ready"
    /\ f_pass = 1
    /\ f_gen \in Generators
    /\ f_task = [n \in NodesOf(tree) |-> "idle"]
    /\ f_result = [n \in NodesOf(tree) |-> None]
    /\ node_to_paragraph = {}
    /\ f_doc = None
    /\ f_first_doc = None
    /\ ForwardRestIdle

ForwardNext ==
    \/ ForwardStart
    \/ \E n \in NodesOf(tree) : TaskReturnEarly(n)
    \/ \E n \in NodesOf(tree) : TaskBeginGenerate(n)
    \/ \E n \in NodesOf(tree) : TaskEndGenerate(n)
    \/ \E n \in NodesOf(tree) : Collect(n)
    \/ Assemble
    \/ ForwardAgain

ForwardSpec == ForwardInit /\ [][ForwardNext]_vars

\* ------------------------------------------------------------------------
\* Properties of forward
\* ------------------------------------------------------------------------
RECURSIVE CollectInOrder(_, _)
\* the dict forward builds when the futures complete in submission order
CollectInOrder(order, dict) ==
    IF order = <<>> THEN dict
    ELSE CollectInOrder(Tail(order),
                        DictPut(dict, f_result[Head(order)][1], f_result[Head(order)][2]))

\* two nodes with the same root-to-node path string
SharedPath == \E m, n \in NodesOf(tree) : m # n /\ PathString(m) = PathString(n)

\* C6: with a fixed evidence pool and a fixed generator output per node, the
\* document forward returns is the one it returns when the tasks complete in
\* submission order, whatever order they complete in, and a second forward
\* call on the tree returns the same document as the first; for every tree.
C6_FanOutDeterministic ==
    f_pc = "done" =>
        /\ f_doc = AssembledDocument(CollectInOrder(AllNodes, {}))
        /\ f_pass = 2 => f_doc = f_first_doc

\* the same, for trees in which no two nodes share a path string
C6_DeterministicOnDistinctPaths ==
    (f_pc = "done" /\ ~SharedPath) =>
        /\ f_doc = AssembledDocument(CollectInOrder(AllNodes, {}))
        /\ f_pass = 2 => f_doc = f_first_doc

\* ------------------------------------------------------------------------
\* StormPersonaGenerator.generate_persona
\* ------------------------------------------------------------------------
\* line 153 (the text itself is immaterial)
default_persona == "basic fact writer"

\* a line of gen_persona_output: whether re.search(r"\d+\.\s*(.*)", s)
\* matches it, and what group(1) is if it does
OutputLines ==
    { [numbered |-> FALSE, rest |-> "intro"],
      [numbered |-> TRUE, rest |-> "editor one"],
      [numbered |-> TRUE, rest |-> "editor two"] }

RECURSIVE ParsePersonas(_)
\* lines 100-104: the candidates, in the order generated
ParsePersonas(lines) ==
    IF lines = <<>> THEN <<>>
    ELSE IF Head(lines).numbered
        THEN <<Head(lines).rest>> \o ParsePersonas(Tail(lines))
        ELSE ParsePersonas(Tail(lines))

\* Python's seq[:stop]
SliceTo(seq, stop) ==
    IF stop >= 0 THEN SubSeq(seq, 1, Min(stop, Len(seq)))
    ELSE SubSeq(seq, 1, Max(Len(seq) + stop, 0))

\* line 154, a mutant of it: the default persona is counted in the limit
ConsideredPersonasSliceAll(candidates, limit) ==
    SliceTo(<<default_persona>> \o candidates, limit)

\* line 154
ConsideredPersonas(candidates, limit) ==
    <<default_persona>> \o SliceTo(candidates, limit)

SeqsUpTo(S, n) == UNION { [1 .. k -> S] : k \in 0 .. n }

PersonaInit ==
    /\ p_pc = "ready"
    /\ gen_persona_output \in SeqsUpTo(OutputLines, MaxLines)
    /\ max_num_persona \in 0 .. MaxPersona
    /\ personas = <<>>
    /\ considered_personas = <<>>
    /\ PersonaRestIdle

\* lines 135-155, with lines 100-104 of create_writer_with_persona
GeneratePersona ==
    /\ p_pc = "ready"
    /\ p_pc' = "returned"
    /\ personas' = ParsePersonas(gen_persona_output)
    /\ considered_personas' =
           ConsideredPersonas(ParsePersonas(gen_persona_output), max_num_persona)
    /\ UNCHANGED <<gen_persona_output, max_num_persona, persona_rest>>

PersonaNext == GeneratePersona

PersonaSpec == PersonaInit /\ [][PersonaNext]_vars

\* C7: generate_persona returns the default persona followed by the first
\* min(N, k) generated personas in generated order, k being the number of
\* candidates; so N + 1 personas when k >= N, and never more than N
\* generated ones.  N ranges over the non-negative integers.
C7_PersonaList ==
    p_pc = "returned" =>
        LET k == Len(personas)
            taken == Min(max_num_persona, k)
        IN /\ Len(considered_personas) = 1 + taken
           /\ considered_personas[1] = default_persona
           /\ \A i \in 1 .. taken : considered_personas[i + 1] = personas[i]
           /\ k >= max_num_persona => Len(considered_personas) = max_num_persona + 1
           /\ Len(considered_personas) - 1 <= max_num_persona

\* more candidates than the limit: the list is cut to N + 1
C7_Witness ==
    /\ p_pc = "returned"
    /\ max_num_persona >= 1
    /\ Len(personas) > max_num_persona
    /\ Len(considered_personas) = max_num_persona + 1
    /\ Len(gen_persona_output) > Len(personas)

\* ------------------------------------------------------------------------
\* TopicExpert.forward (knowledge_curation.py)
\* ------------------------------------------------------------------------
\* line 252, line 255, and line 129 of grounded_question_answering.py
CannotAnswerFallback == "Sorry, I cannot answer this question. Please ask another question."
CannotFindSentinel == "Sorry, I cannot find information for this question. Please ask another question."
InsufficientSentinel == "Sorry, there is insufficient information to answer the question."

\* retrieved Information: a url and its snippets
InfoU1 == [url |-> "u1", snippets |-> <<"s1">>]
InfoGT == [url |-> "gt", snippets |-> <<"s2">>]
InfoBare == [url |-> "u3", snippets |-> <<>>]

ResultLists == { <<>>, <<InfoU1>>, <<InfoBare>>, <<InfoU1, InfoGT>> }

\* Retriever.retrieve(queries, exclude_urls): no result comes from an excluded url
Retrievable(exclude_urls) ==
    { r \in ResultLists :
        \A i \in 1 .. Len(r) : \A j \in 1 .. Len(exclude_urls) : r[i].url # exclude_urls[j] }

\* the query list after lines 223-227 (split, clean, truncate)
QueryLists == { <<"a">>, <<"a", "a", "b">> }

\* the answer after the clean-up passes that follow the generation call
Answers == { "an answer [1]", "an answer [1] References: [1] u1" }

SeqToSet(seq) == { seq[i] : i \in 1 .. Len(seq) }

\* What the external calls of one expert call do: each either raises or
\* returns; a call that is not reached has no outcome.
QueriesRaise == { [fails |-> "generate_queries", queries |-> <<>>, results |-> <<>>, answer |-> ""] }
RetrieveRaises ==
    { [fails |-> "retrieve", queries |-> q, results |-> <<>>, answer |-> ""] : q \in QueryLists }
AnswerRaises(exclude_urls) ==
    { [fails |-> "answer_question", queries |-> q, results |-> r, answer |-> ""] :
        q \in QueryLists, r \in Retrievable(exclude_urls) \ { <<>> } }
AllReturn(exclude_urls) ==
    { [fails |-> "", queries |-> q, results |-> r, answer |-> a] :
        q \in QueryLists, r \in Retrievable(exclude_urls), a \in Answers }
ExpertEnvs(exclude_urls) ==
    QueriesRaise \cup RetrieveRaises \cup AnswerRaises(exclude_urls) \cup AllReturn(exclude_urls)

\* line 230, a mutant of it: nothing is excluded
ExcludeUrlsNone(url) == <<>>

\* line 230: exclude_urls=[ground_truth_url]
ExcludeUrls(url) == <<url>>

\* line 232, a mutant of it: the answer is generated whatever was retrieved
HasResultsAlways(searched_results) == TRUE

\* line 232
HasResults(searched_results) == Len(searched_results) > 0

\* lines 243-252, a mutant of them: no try/except around the generation
AnswerFailureCaughtNever(fails) == FALSE

\* lines 243-252: a failure of the answer generation is caught
AnswerFailureCaught(fails) == fails = "answer_question"

\* lines 219-259.  raised: the call raised; failed: the external call that
\* failed, if any; retriever_calls: the (queries, exclude_urls) of each
\* retrieve call; answer_question_calls: the calls of self.answer_question.
TopicExpertForward(question, url, env) ==
    IF env.fails = "generate_queries" THEN
        [raised |-> TRUE, failed |-> env.fails, question |-> question,
         queries |-> <<>>, searched_results |-> <<>>,
         answer |-> "", retriever_calls |-> <<>>, answer_question_calls |-> 0]
    ELSE LET call == [queries |-> SeqToSet(env.queries),
                      exclude_urls |-> ExcludeUrls(url)]
         IN IF env.fails = "retrieve" THEN
                [raised |-> TRUE, failed |-> env.fails, question |-> question,
                 queries |-> env.queries, searched_results |-> <<>>,
                 answer |-> "", retriever_calls |-> <<call>>, answer_question_calls |-> 0]
            ELSE IF ~HasResults(env.results) THEN
                [raised |-> FALSE, failed |-> "", question |-> question,
                 queries |-> env.queries, searched_results |-> env.results,
                 answer |-> CannotFindSentinel,
                 retriever_calls |-> <<call>>, answer_question_calls |-> 0]
            ELSE IF env.fails = "answer_question" THEN
                [raised |-> ~AnswerFailureCaught(env.fails), failed |-> env.fails,
                 question |-> question,
                 queries |-> env.queries, searched_results |-> env.results,
                 answer |-> CannotAnswerFallback,
                 retriever_calls |-> <<call>>, answer_question_calls |-> 1]
            ELSE
                [raised |-> FALSE, failed |-> "", question |-> question,
                 queries |-> env.queries, searched_results |-> env.results,
                 answer |-> env.answer,
                 retriever_calls |-> <<call>>, answer_question_calls |-> 1]

\* ------------------------------------------------------------------------
\* AnswerQuestionModule.forward (grounded_question_answering.py)
\* ------------------------------------------------------------------------
\* format_search_results in "brief" mode: one entry per Information that
\* has a snippet; the text is empty when no entry is left
FormatSearchResults(searched_results) ==
    SelectSeq(searched_results, LAMBDA info : info.snippets # <<>>)

\* line 131, a mutant of it: the answer is generated on empty evidence too
HasInfoTextAlways(info_text) == TRUE

\* line 131: if info_text
HasInfoText(info_text) == info_text # <<>>

\* lines 92-163 with retrieve_information (lines 66-90); the module has no
\* try/except: a failing external call raises out of forward
AnswerQuestionForward(question, env) ==
    IF env.fails = "generate_queries" THEN
        [raised |-> TRUE, failed |-> env.fails, question |-> question,
         queries |-> <<>>, searched_results |-> <<>>, info_text |-> <<>>,
         response |-> "", retriever_calls |-> <<>>, answer_question_calls |-> 0]
    ELSE LET call == [queries |-> SeqToSet(env.queries), exclude_urls |-> <<>>]
             info_text == FormatSearchResults(env.results)
         IN IF env.fails = "retrieve" THEN
                [raised |-> TRUE, failed |-> env.fails, question |-> question,
                 queries |-> env.queries, searched_results |-> <<>>, info_text |-> <<>>,
                 response |-> "", retriever_calls |-> <<call>>, answer_question_calls |-> 0]
            ELSE IF ~HasInfoText(info_text) THEN
                [raised |-> FALSE, failed |-> "", question |-> question,
                 queries |-> env.queries, searched_results |-> env.results,
                 info_text |-> info_text, response |-> InsufficientSentinel,
                 retriever_calls |-> <<call>>, answer_question_calls |-> 0]
            ELSE IF env.fails = "answer_question" THEN
                [raised |-> TRUE, failed |-> env.fails, question |-> question,
                 queries |-> env.queries, searched_results |-> env.results,
                 info_text |-> info_text, response |-> "",
                 retriever_calls |-> <<call>>, answer_question_calls |-> 1]
            ELSE
                [raised |-> FALSE, failed |-> "", question |-> question,
                 queries |-> env.queries, searched_results |-> env.results,
                 info_text |-> info_text, response |-> env.answer,
                 retriever_calls |-> <<call>>, answer_question_calls |-> 1]

GroundTruthUrls == { "", "gt" }
QuestionTexts == { <<"What is it?">>, <<"Why?">> }

AnswerInit ==
    /\ e_pc = "ready"
    /\ e_out = <<>>
    /\ a_pc = "ready"
    /\ a_out = <<>>
    /\ AnswerRestIdle

\* a TopicExpert.forward call
TopicExpertCall(question, url, env) ==
    /\ e_pc = "ready"
    /\ e_out' = TopicExpertForward(question, url, env)
    /\ e_pc' = IF e_out'.raised THEN "raised" ELSE "returned"
    /\ UNCHANGED <<a_pc, a_out, answer_rest>>

\* an AnswerQuestionModule.forward call
AnswerQuestionCall(question, env) ==
    /\ a_pc = "ready"
    /\ a_out' = AnswerQuestionForward(question, env)
    /\ a_pc' = IF a_out'.raised THEN "raised" ELSE "returned"
    /\ UNCHANGED <<e_pc, e_out, answer_rest>>

AnswerNext ==
    \/ \E q \in QuestionTexts : \E g \in GroundTruthUrls :
          \E env \in ExpertEnvs(ExcludeUrls(g)) : TopicExpertCall(q, g, env)
    \/ \E q \in QuestionTexts : \E env \in ExpertEnvs(<<>>) : AnswerQuestionCall(q, env)

AnswerSpec == AnswerInit /\ [][AnswerNext]_vars

\* C3: when retrieval yields zero Information, TopicExpert.forward does not
\* call the answer generator and returns the "cannot find information"
\* sentinel with the empty result list; AnswerQuestionModule.forward returns
\* the "insufficient information" sentinel, without calling the generator,
\* whenever the formatted evidence text is empty; neither raises.
C3_EmptyEvidenceSentinel ==
    /\ ( /\ e_pc \in {"returned", "raised"}
         /\ e_out.failed \notin {"generate_queries", "retrieve"}
         /\ e_out.searched_results = <<>> )
       => ( /\ e_pc = "returned"
            /\ e_out.answer = CannotFindSentinel
            /\ e_out.answer_question_calls = 0 )
    /\ ( /\ a_pc \in {"returned", "raised"}
         /\ a_out.failed \notin {"generate_queries", "retrieve"}
         /\ a_out.info_text = <<>> )
       => ( /\ a_pc = "returned"
            /\ a_out.response = InsufficientSentinel
            /\ a_out.answer_question_calls = 0 )

\* both modules answered a question whose retrieval found nothing usable:
\* no result for the expert, results without any snippet for the module
C3_Witness ==
    /\ e_pc = "returned"
    /\ e_out.searched_results = <<>>
    /\ e_out.retriever_calls # <<>>
    /\ e_out.answer = CannotFindSentinel
    /\ a_pc = "returned"
    /\ a_out.searched_results # <<>>
    /\ a_out.info_text = <<>>
    /\ a_out.response = InsufficientSentinel

\* ------------------------------------------------------------------------
\* ConvSimulator.forward (knowledge_curation.py)
\* ------------------------------------------------------------------------
MaxTurn == 2

\* line 67: the phrase that ends a conversation
ThanksPhrase == "Thank you so much for your help!"

\* lines 135 and 152: the phrase the writer's prompt asks the model to say
PromptThanksPhrase == "Thank you for your time and valuable insights."

\* An utterance is the sequence of its sentences; "" is the empty sequence.
EmptyUtterance == <<>>

Utterances ==
    { EmptyUtterance,
      <<ThanksPhrase>>,
      <<ThanksPhrase, "Goodbye.">>,
      <<"What is it?">>,
      <<"What is it?", ThanksPhrase>>,
      <<PromptThanksPhrase>> }

\* str.startswith
StartsWith(utterance, phrase) == Len(utterance) > 0 /\ utterance[1] = phrase

\* line 60, a mutant of it: one turn too many
MoreTurnsInclusive(turn, limit) == turn <= limit

\* line 60: for _ in range(self.max_turn)
MoreTurns(turn, limit) == turn < limit

\* lines 64-68, a mutant of them: the test for the thanks is missing
EndsConversationOnEmptyOnly(utterance) == utterance = EmptyUtterance

\* lines 64-68: the two tests that leave the loop
EndsConversation(utterance) ==
    utterance = EmptyUtterance \/ StartsWith(utterance, ThanksPhrase)

\* lines 72-77
DialogueTurn(expert_output, utterance) ==
    [agent_utterance |-> expert_output.answer,
     user_utterance |-> utterance,
     search_queries |-> expert_output.queries,
     search_results |-> expert_output.searched_results]

\* line 59: the call has just entered forward.  turn counts the finished
\* loop iterations; the counters record the calls made so far; failed is
\* the external call that failed in the latest expert call, if any.
NewConversation ==
    [pc |-> "loop", turn |-> 0, dlg_history |-> <<>>,
     user_utterance |-> EmptyUtterance,
     writer_calls |-> 0, expert_calls |-> 0, answer_question_calls |-> 0,
     retriever_calls |-> <<>>, turn_end_calls |-> 0,
     failed |-> "", raised_by |-> ""]

\* lines 61-68: the writer returns an utterance
AfterWriter(c, utterance) ==
    [c EXCEPT !.user_utterance = utterance,
              !.writer_calls = @ + 1,
              !.pc = IF EndsConversation(utterance) THEN "returned" ELSE "answering"]

\* lines 61-63: the writer's model call raises; nothing catches it
AfterWriterRaises(c) ==
    [c EXCEPT !.writer_calls = @ + 1, !.pc = "raised", !.raised_by = "wiki_writer"]

\* lines 69-79: the expert call, and on its return the turn is recorded
\* and reported to the callback handler
AfterExpert(c, url, env) ==
    LET out == TopicExpertForward(c.user_utterance, url, env)
        called == [c EXCEPT !.expert_calls = @ + 1,
                            !.answer_question_calls = @ + out.answer_question_calls,
                            !.retriever_calls = @ \o out.retriever_calls,
                            !.failed = out.failed]
    IN  IF out.raised
        THEN [called EXCEPT !.pc = "raised", !.raised_by = "topic_expert"]
        ELSE [called EXCEPT !.pc = "loop",
                            !.turn = @ + 1,
                            !.dlg_history = Append(@, DialogueTurn(out, c.user_utterance)),
                            !.turn_end_calls = @ + 1]

\* line 60 exhausted, line 81
AfterLoop(c) == [c EXCEPT !.pc = "returned"]

ConvInit ==
    /\ max_turn \in 0 .. MaxTurn
    /\ ground_truth_url \in GroundTruthUrls
    /\ conv = NewConversation
    /\ ConvRestIdle

WriterAsks(utterance) ==
    /\ conv # <<>>
    /\ conv.pc = "loop"
    /\ MoreTurns(conv.turn, max_turn)
    /\ conv' = AfterWriter(conv, utterance)
    /\ UNCHANGED <<max_turn, ground_truth_url, conv_rest>>

WriterRaises ==
    /\ conv # <<>>
    /\ conv.pc = "loop"
    /\ MoreTurns(conv.turn, max_turn)
    /\ conv' = AfterWriterRaises(conv)
    /\ UNCHANGED <<max_turn, ground_truth_url, conv_rest>>

ExpertAnswers(env) ==
    /\ conv # <<>>
    /\ conv.pc = "answering"
    /\ conv' = AfterExpert(conv, ground_truth_url, env)
    /\ UNCHANGED <<max_turn, ground_truth_url, conv_rest>>

LoopExit ==
    /\ conv # <<>>
    /\ conv.pc = "loop"
    /\ ~MoreTurns(conv.turn, max_turn)
    /\ conv' = AfterLoop(conv)
    /\ UNCHANGED <<max_turn, ground_truth_url, conv_rest>>

ConvNext ==
    \/ \E utterance \in Utterances : WriterAsks(utterance)
    \/ WriterRaises
    \/ \E env \in ExpertEnvs(ExcludeUrls(ground_truth_url)) : ExpertAnswers(env)
    \/ LoopExit

ConvSpec == ConvInit /\ [][ConvNext]_vars

\* every writer and expert call that is made comes back
FairConvSpec == ConvSpec /\ WF_vars(ConvNext)

ConvBounded ==
    /\ conv.writer_calls <= max_turn
    /\ conv.expert_calls <= max_turn
    /\ Len(conv.dlg_history) <= max_turn
    /\ max_turn = 0 =>
          /\ conv.writer_calls = 0
          /\ conv.expert_calls = 0
          /\ conv.dlg_history = <<>>
          /\ conv.pc \in {"loop", "returned"}

ConvEnded == conv.pc \in {"returned", "raised"}

\* C8: ConvSimulator.forward asks the writer at most max_turn questions,
\* calls the expert at most max_turn times, holds at most max_turn turns,
\* and, every call coming back, ends; with max_turn = 0 it returns an empty
\* history without calling the writer or the expert.
C8_ConversationBounded ==
    /\ []ConvBounded
    /\ <>ConvEnded
    /\ (max_turn = 0) => <>(conv.pc = "returned" /\ conv.dlg_history = <<>>)

\* a conversation that used its whole budget of turns and returned
C8_Witness ==
    /\ max_turn = MaxTurn
    /\ conv.pc = "returned"
    /\ conv.writer_calls = max_turn
    /\ conv.expert_calls = max_turn
    /\ Len(conv.dlg_history) = max_turn

\* this step is the expert call of a turn, and the external call named by
\* one of calls failed in it
ExpertCallFails(calls) ==
    /\ conv.pc = "answering"
    /\ conv'.expert_calls = conv.expert_calls + 1
    /\ conv'.failed \in calls

\* the failure was not raised: the turn is recorded with the fallback
\* answer, the failing call was made once, and the loop goes on
FallbackTurnRecorded ==
    /\ conv'.pc = "loop"
    /\ conv'.raised_by = ""
    /\ conv'.turn = conv.turn + 1
    /\ Len(conv'.dlg_history) = Len(conv.dlg_history) + 1
    /\ conv'.dlg_history[Len(conv'.dlg_history)].agent_utterance = CannotAnswerFallback
    /\ conv'.dlg_history[Len(conv'.dlg_history)].user_utterance = conv.user_utterance
    /\ conv'.turn_end_calls = conv.turn_end_calls + 1
    /\ conv'.answer_question_calls <= conv.answer_question_calls + 1
    /\ conv'.failed = "answer_question" =>
          conv'.answer_question_calls = conv.answer_question_calls + 1
    /\ Len(conv'.retriever_calls) <= Len(conv.retriever_calls) + 1

\* C9 as stated: whichever external call fails while the expert answers
\* (query generation, retrieval or answer generation), the failure is not
\* raised, the turn carries the fallback answer, the call is made once and
\* the conversation goes on.
C9_AnyExpertFailureCaught ==
    [][ ExpertCallFails({"generate_queries", "retrieve", "answer_question"})
            => FallbackTurnRecorded ]_vars

\* C9, amended: a failure of the answer generation while the expert answers
\* is not raised: the turn is recorded with the fallback answer, the
\* generation is attempted once, and the conversation goes on.
C9_AnswerFailureCaught ==
    [][ ExpertCallFails({"answer_question"}) => FallbackTurnRecorded ]_vars

\* after an answer generation failed, the writer asked its next question
C9_Witness ==
    /\ conv.failed = "answer_question"
    /\ conv.pc = "answering"
    /\ conv.turn = 1
    /\ conv.dlg_history[1].agent_utterance = CannotAnswerFallback
    /\ conv.writer_calls = 2
    /\ conv.answer_question_calls = 1

\* ------------------------------------------------------------------------
\* StormKnowledgeCurationModule.research and _run_conversation
\* ------------------------------------------------------------------------
MaxConvTurn == 2
MaxThreadNum == 2
MaxPerspective == 1

\* what the persona generator's model proposes
PerspectiveCandidates == { <<>>, <<"p1">>, <<default_persona>> }

\* the writer's utterances and the expert's external calls in a research run
ResearchUtterances == { <<ThanksPhrase>>, <<"What is it?">> }

ResearchEnvs(exclude_urls) ==
    { env \in ExpertEnvs(exclude_urls) :
        /\ env.queries \in { <<>>, <<"a">> }
        /\ env.results \in { <<>>, <<InfoU1>> }
        /\ env.answer \in { "", "an answer [1] References: [1] u1" } }

\* lines 383-389, a mutant of them: the personas are generated whatever
\* disable_perspective says, and the result is dropped when it is true
PersonaGenerationCallsAlways(disable_perspective) == 1

\* lines 383-389: _get_considered_personas is called in the else branch
PersonaGenerationCalls(disable_perspective) == IF disable_perspective THEN 0 ELSE 1

\* lines 383-389
ResearchPersonas(disable_perspective, candidates, max_perspective) ==
    IF disable_perspective THEN <<"">> ELSE ConsideredPersonas(candidates, max_perspective)

\* line 340, a mutant of it: one worker per persona
MaxWorkersPerPersona(thread_num, persona_list) == Len(persona_list)

\* line 340
MaxWorkersOf(thread_num, persona_list) == Min(thread_num, Len(persona_list))

\* lines 343-346: one future per persona, in the order of the list
SubmittedTasks(persona_list) ==
    [i \in 1 .. Len(persona_list) |->
        [persona |-> persona_list[i], status |-> "queued", conv |-> NewConversation]]

\* ArticleTextProcessing.clean_up_citation on one answer: the text from
\* "References:" on is cut off
CleanAnswer(answer) ==
    IF answer = "an answer [1] References: [1] u1" THEN "an answer [1]" ELSE answer

\* ArticleTextProcessing.clean_up_citation on a dialogue history: it
\* rewrites the text of the expert's answers and keeps the turns
CleanUpCitation(dlg_history) ==
    [k \in 1 .. Len(dlg_history) |->
        [dlg_history[k] EXCEPT !.agent_utterance = CleanAnswer(@)]]

\* lines 354-358, a mutant of them: the persona variable of the submitting
\* loop is read after the loop has ended
CollectedTupleLastPersona(task) ==
    <<r_personas[Len(r_personas)], CleanUpCitation(task.conv.dlg_history)>>

\* lines 354-358: the tuple appended for a finished future
CollectedTuple(task) == <<task.persona, CleanUpCitation(task.conv.dlg_history)>>

TaskEnded(task) == task.status = "running" /\ task.conv.pc \in {"returned", "raised"}
TaskBusy(task) == task.status = "running" /\ task.conv.pc \notin {"returned", "raised"}
BusyWorkers == { i \in DOMAIN r_tasks : TaskBusy(r_tasks[i]) }

ResearchInit ==
    /\ r_pc = "ready"
    /\ max_thread_num \in 0 .. MaxThreadNum
    /\ max_turn \in 0 .. MaxConvTurn
    /\ ground_truth_url \in GroundTruthUrls
    /\ conv = <<>>
    /\ r_personas = <<>>
    /\ r_tasks = <<>>
    /\ conversations = <<>>
    /\ information_table = <<>>
    /\ r_callbacks = <<>>
    /\ r_disable_perspective \in BOOLEAN
    /\ persona_generation_calls = 0
    /\ ResearchRestIdle

\* lines 382-393 and 330-346: the personas are identified and one
\* conversation per persona is submitted; a pool of no worker is refused
ResearchStart(disable_perspective, candidates, max_perspective) ==
    /\ r_pc = "ready"
    /\ r_personas' = ResearchPersonas(disable_perspective, candidates, max_perspective)
    /\ r_callbacks' = <<"identify_perspective_start", "identify_perspective_end",
                        "information_gathering_start">>
    /\ IF MaxWorkersOf(max_thread_num, r_personas') <= 0
       THEN r_pc' = "raised" /\ r_tasks' = <<>>
       ELSE r_pc' = "gathering" /\ r_tasks' = SubmittedTasks(r_personas')
    /\ persona_generation_calls' = PersonaGenerationCalls(disable_perspective)
    /\ UNCHANGED <<max_thread_num, conversations, information_table, r_disable_perspective>>
    /\ UNCHANGED <<cvars, research_rest>>

\* line 387: the persona generator's model call raises
PersonaGenerationRaises ==
    /\ r_pc = "ready"
    /\ ~r_disable_perspective
    /\ persona_generation_calls' = persona_generation_calls + 1
    /\ r_callbacks' = <<"identify_perspective_start">>
    /\ r_pc' = "raised"
    /\ UNCHANGED <<max_thread_num, r_personas, r_tasks, conversations, information_table,
                   r_disable_perspective>>
    /\ UNCHANGED <<cvars, research_rest>>

\* a free worker thread takes the oldest queued future (lines 332-338)
WorkerStarts(i) ==
    /\ r_pc \in {"gathering", "unwinding"}
    /\ i \in DOMAIN r_tasks
    /\ r_tasks[i].status = "queued"
    /\ \A j \in 1 .. i - 1 : r_tasks[j].status # "queued"
    /\ Cardinality(BusyWorkers) < MaxWorkersOf(max_thread_num, r_personas)
    /\ r_tasks' = [r_tasks EXCEPT ![i].status = "running"]
    /\ UNCHANGED <<r_pc, max_thread_num, r_personas, conversations,
                   information_table, r_callbacks>>
    /\ UNCHANGED <<r_disable_perspective, persona_generation_calls>>
    /\ UNCHANGED <<cvars, research_rest>>

\* lines 66 and 78, a mutant of them: the dialogue history is an attribute
\* of the simulator, which every task appends to
TaskStepSharedHistory(i, after) ==
    /\ r_tasks' = [j \in DOMAIN r_tasks |->
                      IF j = i
                      THEN [r_tasks[j] EXCEPT !.conv = after]
                      ELSE [r_tasks[j] EXCEPT !.conv.dlg_history = after.dlg_history]]
    /\ r_callbacks' =
          IF after.turn_end_calls > r_tasks[i].conv.turn_end_calls
          THEN Append(r_callbacks, "dialogue_turn_end")
          ELSE r_callbacks
    /\ UNCHANGED <<r_pc, max_thread_num, r_personas, conversations, information_table>>
    /\ UNCHANGED <<r_disable_perspective, persona_generation_calls>>
    /\ UNCHANGED <<cvars, research_rest>>

\* lines 66-79: a step of the conversation of task i writes the local
\* dlg_history of that call and reports a finished turn to the handler
TaskStep(i, after) ==
    /\ r_tasks' = [r_tasks EXCEPT ![i].conv = after]
    /\ r_callbacks' =
          IF after.turn_end_calls > r_tasks[i].conv.turn_end_calls
          THEN Append(r_callbacks, "dialogue_turn_end")
          ELSE r_callbacks
    /\ UNCHANGED <<r_pc, max_thread_num, r_personas, conversations, information_table>>
    /\ UNCHANGED <<r_disable_perspective, persona_generation_calls>>
    /\ UNCHANGED <<cvars, research_rest>>

TaskAtLoop(i) ==
    /\ i \in DOMAIN r_tasks
    /\ TaskBusy(r_tasks[i])
    /\ r_tasks[i].conv.pc = "loop"

TaskWriterAsks(i, utterance) ==
    /\ TaskAtLoop(i)
    /\ MoreTurns(r_tasks[i].conv.turn, max_turn)
    /\ TaskStep(i, AfterWriter(r_tasks[i].conv, utterance))

TaskWriterRaises(i) ==
    /\ TaskAtLoop(i)
    /\ MoreTurns(r_tasks[i].conv.turn, max_turn)
    /\ TaskStep(i, AfterWriterRaises(r_tasks[i].conv))

TaskExpertAnswers(i, env) ==
    /\ i \in DOMAIN r_tasks
    /\ TaskBusy(r_tasks[i])
    /\ r_tasks[i].conv.pc = "answering"
    /\ TaskStep(i, AfterExpert(r_tasks[i].conv, ground_truth_url, env))

TaskLoopExit(i) ==
    /\ TaskAtLoop(i)
    /\ ~MoreTurns(r_tasks[i].conv.turn, max_turn)
    /\ TaskStep(i, AfterLoop(r_tasks[i].conv))

\* line 355, a mutant of it: the outcome is read without re-raising
ResultRaisesNever(task) == FALSE

\* line 355: future.result() re-raises what the task raised
ResultRaises(task) == task.conv.pc = "raised"

\* lines 353-358: as_completed hands over a finished future; result()
\* re-raises what the conversation raised
Collect_conversation(i) ==
    /\ r_pc = "gathering"
    /\ i \in DOMAIN r_tasks
    /\ TaskEnded(r_tasks[i])
    /\ r_tasks' = [r_tasks EXCEPT ![i].status = "collected"]
    /\ IF ResultRaises(r_tasks[i])
       THEN r_pc' = "unwinding" /\ UNCHANGED conversations
       ELSE /\ r_pc' = "gathering"
            /\ conversations' = Append(conversations, CollectedTuple(r_tasks[i]))
    /\ UNCHANGED <<max_thread_num, r_personas, information_table, r_callbacks>>
    /\ UNCHANGED <<r_disable_perspective, persona_generation_calls>>
    /\ UNCHANGED <<cvars, research_rest>>

\* lines 353-360, a mutant of them: the list is returned from inside the
\* loop, at the first future collected
GatheringFinishedAtFirst(tasks) ==
    \E i \in DOMAIN tasks : tasks[i].status = "collected"

\* lines 353-360: as_completed has handed over every future
GatheringFinished(tasks) ==
    \A i \in DOMAIN tasks : tasks[i].status = "collected"

\* lines 402-408
ResearchReturns ==
    /\ r_pc = "gathering"
    /\ GatheringFinished(r_tasks)
    /\ information_table' = conversations
    /\ r_callbacks' = Append(r_callbacks, "information_gathering_end")
    /\ r_pc' = "done"
    /\ UNCHANGED <<max_thread_num, r_personas, r_tasks, conversations>>
    /\ UNCHANGED <<r_disable_perspective, persona_generation_calls>>
    /\ UNCHANGED <<cvars, research_rest>>

\* line 342: leaving the with block waits for every future, then the
\* exception leaves research
ResearchRaises ==
    /\ r_pc = "unwinding"
    /\ \A i \in DOMAIN r_tasks : r_tasks[i].status = "collected" \/ TaskEnded(r_tasks[i])
    /\ r_pc' = "raised"
    /\ UNCHANGED <<max_thread_num, r_personas, r_tasks, conversations,
                   information_table, r_callbacks>>
    /\ UNCHANGED <<r_disable_perspective, persona_generation_calls>>
    /\ UNCHANGED <<cvars, research_rest>>

ResearchNext ==
    \/ \E candidates \in PerspectiveCandidates : \E max_perspective \in 0 .. MaxPerspective :
          ResearchStart(r_disable_perspective, candidates, max_perspective)
    \/ PersonaGenerationRaises
    \/ \E i \in DOMAIN r_tasks : WorkerStarts(i)
    \/ \E i \in DOMAIN r_tasks : \E utterance \in ResearchUtterances :
          TaskWriterAsks(i, utterance)
    \/ \E i \in DOMAIN r_tasks : TaskWriterRaises(i)
    \/ \E i \in DOMAIN r_tasks : \E env \in ResearchEnvs(ExcludeUrls(ground_truth_url)) :
          TaskExpertAnswers(i, env)
    \/ \E i \in DOMAIN r_tasks : TaskLoopExit(i)
    \/ \E i \in DOMAIN r_tasks : Collect_conversation(i)
    \/ ResearchReturns
    \/ ResearchRaises

ResearchSpec == ResearchInit /\ [][ResearchNext]_vars

\* the retriever calls made so far in the run, over all conversations
RunRetrieverCalls ==
    UNION { SeqToSet(r_tasks[i].conv.retriever_calls) : i \in DOMAIN r_tasks }

\* C10: every retriever call of a research run, whatever the persona and
\* the turn, is passed an exclude_urls list that contains the
\* ground_truth_url given to research.
C10_GroundTruthExcluded ==
    \A call \in RunRetrieverCalls : ground_truth_url \in SeqToSet(call.exclude_urls)

\* a finished run of two personas, each of which searched in two turns
C10_Witness ==
    /\ r_pc = "done"
    /\ ground_truth_url = "gt"
    /\ Len(r_tasks) = 2
    /\ \A i \in DOMAIN r_tasks : Len(r_tasks[i].conv.retriever_calls) = 2

\* ------------------------------------------------------------------------
\* main (examples/storm_examples/run_storm_wiki.py)
\* ------------------------------------------------------------------------
\* lines 53-68, and the choices of --retriever (line 95)
SupportedRetrievers ==
    { "bing", "you", "brave", "duckduckgo", "serper", "tavily", "searxng",
      "azure_ai_search" }

\* the retriever strings a caller may pass
RetrieverStrings == SupportedRetrievers \cup { "google", "Bing", "" }

\* line 69, a mutant of it: the default case falls back to the first case
MatchedCaseDefaultsToBing(retriever) ==
    IF retriever \in SupportedRetrievers THEN retriever ELSE "bing"

\* lines 52-69: the case of the match statement that is taken
MatchedCase(retriever) ==
    IF retriever \in SupportedRetrievers THEN retriever ELSE "_"

\* lines 53-70: the class built in each case; the default case raises
RetrieverClass(case) ==
    CASE case = "bing" -> "BingSearch"
      [] case = "you" -> "YouRM"
      [] case = "brave" -> "BraveRM"
      [] case = "duckduckgo" -> "DuckDuckGoSearchRM"
      [] case = "serper" -> "SerperRM"
      [] case = "tavily" -> "TavilySearchRM"
      [] case = "searxng" -> "SearXNG"
      [] case = "azure_ai_search" -> "AzureAISearch"
      [] OTHER -> "ValueError"

\* the stages of STORMWikiRunner.run, in the order it runs them
Stages == <<"research", "outline", "draft", "polish">>

\* lines 78-81: whether the stage is asked for
StageEnabled(a, stage) ==
    CASE stage = "research" -> a.do_research
      [] stage = "outline" -> a.do_generate_outline
      [] stage = "draft" -> a.do_generate_article
      [] stage = "polish" -> a.do_polish_article

ArgsSet ==
    [retriever : RetrieverStrings,
     do_research : BOOLEAN, do_generate_outline : BOOLEAN,
     do_generate_article : BOOLEAN, do_polish_article : BOOLEAN]

MainInit ==
    /\ m_pc = "start"
    /\ args \in ArgsSet
    /\ rm = ""
    /\ runner = FALSE
    /\ m_stage = 0
    /\ m_started = <<>>
    /\ m_error = ""
    /\ MainRestIdle

\* lines 88-123: the script parses the command line; argparse refuses a
\* --retriever outside its choices
ParseArgs ==
    /\ m_pc = "start"
    /\ IF args.retriever \in SupportedRetrievers
       THEN m_pc' = "main" /\ m_error' = ""
       ELSE m_pc' = "usage_exit" /\ m_error' = "SystemExit"
    /\ UNCHANGED <<args, rm, runner, m_stage, m_started, main_rest>>

\* main is called with an args object built elsewhere
CallMain ==
    /\ m_pc = "start"
    /\ m_pc' = "main"
    /\ UNCHANGED <<args, rm, runner, m_stage, m_started, m_error, main_rest>>

\* lines 12-70: the configuration, then the match on args.retriever
SelectRetriever ==
    /\ m_pc = "main"
    /\ LET class == RetrieverClass(MatchedCase(args.retriever))
       IN  IF class = "ValueError"
           THEN m_pc' = "raised" /\ m_error' = "ValueError" /\ rm' = rm
           ELSE m_pc' = "selected" /\ m_error' = "" /\ rm' = class
    /\ UNCHANGED <<args, runner, m_stage, m_started, main_rest>>

\* line 72
ConstructRunner ==
    /\ m_pc = "selected"
    /\ runner' = TRUE
    /\ m_stage' = 1
    /\ m_pc' = "run"
    /\ UNCHANGED <<args, rm, m_started, m_error, main_rest>>

\* lines 75-83: runner.run comes to its next stage and runs it if asked to
RunStage ==
    /\ m_pc = "run"
    /\ m_stage <= Len(Stages)
    /\ m_started' =
          IF StageEnabled(args, Stages[m_stage])
          THEN Append(m_started, Stages[m_stage])
          ELSE m_started
    /\ m_stage' = m_stage + 1
    /\ UNCHANGED <<m_pc, args, rm, runner, m_error, main_rest>>

\* lines 75-83: the stage is started and raises
StageRaises ==
    /\ m_pc = "run"
    /\ m_stage <= Len(Stages)
    /\ StageEnabled(args, Stages[m_stage])
    /\ m_started' = Append(m_started, Stages[m_stage])
    /\ m_pc' = "raised"
    /\ m_error' = "stage"
    /\ UNCHANGED <<args, rm, runner, m_stage, main_rest>>

\* lines 84-85
PostRun ==
    /\ m_pc = "run"
    /\ m_stage > Len(Stages)
    /\ m_pc' = "done"
    /\ UNCHANGED <<args, rm, runner, m_stage, m_started, m_error, main_rest>>

MainNext ==
    \/ ParseArgs
    \/ CallMain
    \/ SelectRetriever
    \/ ConstructRunner
    \/ RunStage
    \/ StageRaises
    \/ PostRun

MainSpec == MainInit /\ [][MainNext]_vars

\* C11: for a retriever string outside the eight supported names, main
\* raises before the runner is constructed: no retriever is built, the
\* runner does not exist and no pipeline stage is ever started.
C11_InvalidRetrieverRejected ==
    args.retriever \notin SupportedRetrievers =>
        /\ rm = ""
        /\ runner = FALSE
        /\ m_started = <<>>
        /\ m_pc \in {"start", "main", "raised", "usage_exit"}
        /\ m_pc = "raised" => m_error = "ValueError"

\* main was called with an unsupported name and raised ValueError
C11_Witness ==
    /\ args.retriever = "google"
    /\ args.do_research
    /\ m_pc = "raised"
    /\ m_error = "ValueError"
    /\ runner = FALSE

\* ------------------------------------------------------------------------
\* The shape of the document forward assembles
\* ------------------------------------------------------------------------
RECURSIVE Depth(_, _)
\* the number of edges from the root down to node n
Depth(t, n) == IF n = 0 THEN 0 ELSE 1 + Depth(t, t.parent[n])

\* the heading line of node n: one "#" per level of depth, a blank, the name
HeadingLine(n) == [i \in 1 .. Depth(tree, n) |-> "#"] \o <<" ">> \o NodeName(tree, n)

\* the text gen_section returned for node n in a finished pass: empty for
\* a node without content, else the output the node holds
OwnText(n) == IF content[n] = {} THEN EmptyStr ELSE synthesize_output[n]

RECURSIVE Walk(_, _)
\* the lines made of each node's heading followed by its text, in order
Walk(nodes, text) ==
    IF nodes = <<>> THEN <<>>
    ELSE <<HeadingLine(Head(nodes))>> \o text[Head(nodes)] \o Walk(Tail(nodes), text)

\* the nodes below the root, in pre-order with the children in child order
NonRootPreOrder == Tail(PreOrder(tree, 0))

\* for each node, a node that has the same path string
SamePathChoices ==
    { pick \in [NodesOf(tree) -> NodesOf(tree)] :
        \A n \in NodesOf(tree) : PathString(pick[n]) = PathString(n) }

\* C12 as stated: the document is the pre-order walk of the nodes below the
\* root, one heading line per node with as many "#" as the node's depth,
\* and beneath each heading the node's own generated or cached text.
C12_PreOrderWithOwnText ==
    f_pc = "done" =>
        f_doc = Walk(NonRootPreOrder, [n \in NodesOf(tree) |-> OwnText(n)])

\* C12, amended: the document is the pre-order walk of the nodes below the
\* root, one heading line per node with as many "#" as the node's depth;
\* beneath each heading is the text of a node with the same path string (the
\* node itself when no other node shares its path), less a first line that
\* repeats that node's name.
C12_PreOrderWithStoredText ==
    f_pc = "done" =>
        \E pick \in SamePathChoices :
            f_doc = Walk(NonRootPreOrder,
                         [n \in NodesOf(tree) |-> StripNameLine(pick[n], OwnText(pick[n]))])

\* a finished pass over a tree with a node at depth 2, every node with
\* content, in which the text of node A opened with a line naming it
C12_Witness ==
    /\ f_pc = "done"
    /\ tree = TreeNested
    /\ \A n \in 1 .. 3 : content[n] # {}
    /\ synthesize_output[1] = TextBoldA
    /\ f_doc = << <<"#", " ", "A">>, <<"x">>,
                  <<"#", "#", " ", "B">> >> \o OwnText(3) \o
               << <<"#", " ", "B">> >> \o StripNameLine(2, OwnText(2))

\* ------------------------------------------------------------------------
\* StormArticlePolishingModule.polish_article and PolishPageModule.forward
\* (article_polish.py)
\* ------------------------------------------------------------------------
\* line 102: the marker looked for in the lead section
LeadMarker == "The lead section:"

\* line 45: the heading put before the lead section (the text is immaterial)
LeadHeading == "# lead"

\* A lead-section output is a sequence of characters in which the marker,
\* where it occurs, is one element.
LeadOutputs ==
    { <<"l">>,
      <<"o", "k", LeadMarker, " ", "l", " ">>,
      <<LeadMarker, "a", LeadMarker, "b">>,
      <<>> }

DraftPages == { "", "# A", "# A text", "# A text # B text" }
PolishedPages == { "", "# A text", "# A" }

RECURSIVE UpToMarker(_)
\* the text before the first marker
UpToMarker(text) ==
    IF text = <<>> \/ Head(text) = LeadMarker THEN <<>>
    ELSE <<Head(text)>> \o UpToMarker(Tail(text))

RECURSIVE AfterMarker(_)
\* the text after the first marker
AfterMarker(text) ==
    IF text = <<>> THEN <<>>
    ELSE IF Head(text) = LeadMarker THEN Tail(text)
    ELSE AfterMarker(Tail(text))

\* lines 102-103: split("The lead section:")[1].strip() when the marker occurs
CleanLeadSection(output) ==
    IF \E i \in 1 .. Len(output) : output[i] = LeadMarker
    THEN Strip(UpToMarker(AfterMarker(output)))
    ELSE output

\* line 43, a mutant of it: the default of forward is used
PolishWholePageDefault(flag) == TRUE

\* line 43: polish_whole_page=remove_duplicate
PolishWholePage(flag) == flag

PolishInit ==
    /\ po_pc = "ready"
    /\ remove_duplicate \in BOOLEAN
    /\ draft_page \in DraftPages
    /\ write_lead_calls = 0
    /\ polish_page_calls = 0
    /\ lead_section = <<>>
    /\ page = ""
    /\ polished_article = <<>>
    /\ PolishRestIdle

\* lines 41-42 and 98-103: the lead section is generated
WriteLead(output) ==
    /\ po_pc = "ready"
    /\ write_lead_calls' = write_lead_calls + 1
    /\ lead_section' = CleanLeadSection(output)
    /\ po_pc' = "lead"
    /\ UNCHANGED <<remove_duplicate, draft_page, polish_page_calls, page,
                   polished_article, polish_rest>>

\* lines 99-101: the generation call raises
WriteLeadRaises ==
    /\ po_pc = "ready"
    /\ write_lead_calls' = write_lead_calls + 1
    /\ po_pc' = "raised"
    /\ UNCHANGED <<remove_duplicate, draft_page, polish_page_calls, lead_section,
                   page, polished_article, polish_rest>>

\* lines 104-107: the whole page is rewritten
PolishWhole(output) ==
    /\ po_pc = "lead"
    /\ PolishWholePage(remove_duplicate)
    /\ polish_page_calls' = polish_page_calls + 1
    /\ page' = output
    /\ po_pc' = "page"
    /\ UNCHANGED <<remove_duplicate, draft_page, write_lead_calls, lead_section,
                   polished_article, polish_rest>>

\* line 107: the rewriting call raises
PolishWholeRaises ==
    /\ po_pc = "lead"
    /\ PolishWholePage(remove_duplicate)
    /\ polish_page_calls' = polish_page_calls + 1
    /\ po_pc' = "raised"
    /\ UNCHANGED <<remove_duplicate, draft_page, write_lead_calls, lead_section,
                   page, polished_article, polish_rest>>

\* lines 108-109
KeepDraft ==
    /\ po_pc = "lead"
    /\ ~PolishWholePage(remove_duplicate)
    /\ page' = draft_page
    /\ po_pc' = "page"
    /\ UNCHANGED <<remove_duplicate, draft_page, write_lead_calls, polish_page_calls,
                   lead_section, polished_article, polish_rest>>

\* lines 111 and 45-53: the lead section and the page are joined
JoinArticle ==
    /\ po_pc = "page"
    /\ polished_article' = <<LeadHeading, lead_section, page>>
    /\ po_pc' = "returned"
    /\ UNCHANGED <<remove_duplicate, draft_page, write_lead_calls, polish_page_calls,
                   lead_section, page, polish_rest>>

PolishNext ==
    \/ \E output \in LeadOutputs : WriteLead(output)
    \/ WriteLeadRaises
    \/ \E output \in PolishedPages : PolishWhole(output)
    \/ PolishWholeRaises
    \/ KeepDraft
    \/ JoinArticle

PolishSpec == PolishInit /\ [][PolishNext]_vars

\* C13: a polishing makes one lead-section generation call, and makes the
\* duplicate-removal call once if remove_duplicate is true and never if it
\* is false; when it is false the page passed on is the draft text.
C13_PolishCalls ==
    /\ write_lead_calls <= 1
    /\ polish_page_calls <= 1
    /\ polish_page_calls = 1 => remove_duplicate
    /\ po_pc \in {"page", "returned"} =>
          /\ write_lead_calls = 1
          /\ polish_page_calls = 1 <=> remove_duplicate
          /\ ~remove_duplicate => page = draft_page
    /\ po_pc = "returned" =>
          polished_article = <<LeadHeading, lead_section, page>>

\* a non-empty draft was polished without duplicate removal
C13_Witness ==
    /\ po_pc = "returned"
    /\ ~remove_duplicate
    /\ draft_page = "# A text # B text"
    /\ write_lead_calls = 1
    /\ polish_page_calls = 0
    /\ polished_article[3] = draft_page

\* the futures whose conversation returned and was collected
CollectedTasks ==
    { i \in DOMAIN r_tasks :
        r_tasks[i].status = "collected" /\ r_tasks[i].conv.pc = "returned" }

\* _run_conversation has returned (line 360)
RunConversationReturned ==
    \/ r_pc = "done"
    \/ /\ r_pc = "gathering"
       /\ r_tasks # <<>>
       /\ \A i \in DOMAIN r_tasks : r_tasks[i].status = "collected"

\* C14: the list _run_conversation builds holds one tuple per collected
\* simulation, each pairing the persona the simulation was run for with the
\* (cleaned) history that simulation produced; when it returns there is
\* exactly one tuple for each element of considered_personas, duplicates
\* included, whatever the order in which the simulations completed.
C14_OneTuplePerPersona ==
    /\ \A i \in DOMAIN r_tasks : r_tasks[i].persona = r_personas[i]
    /\ \E slot \in [1 .. Len(conversations) -> CollectedTasks] :
          /\ \A j, k \in 1 .. Len(conversations) : slot[j] = slot[k] => j = k
          /\ \A k \in 1 .. Len(conversations) :
                /\ conversations[k][1] = r_personas[slot[k]]
                /\ conversations[k][2] = CleanUpCitation(r_tasks[slot[k]].conv.dlg_history)
    /\ Len(conversations) = Cardinality(CollectedTasks)
    /\ RunConversationReturned =>
          /\ Len(conversations) = Len(r_personas)
          /\ CollectedTasks = DOMAIN r_tasks

\* two simulations of the same persona with different histories, the one
\* submitted second collected first
C14_Witness ==
    /\ r_pc = "done"
    /\ Len(r_personas) = 2
    /\ r_personas[1] = r_personas[2]
    /\ Len(r_tasks[1].conv.dlg_history) = 2
    /\ Len(r_tasks[2].conv.dlg_history) = 1
    /\ conversations[1] = <<r_personas[2], CleanUpCitation(r_tasks[2].conv.dlg_history)>>
    /\ conversations[2] = <<r_personas[1], CleanUpCitation(r_tasks[1].conv.dlg_history)>>
    /\ r_tasks[1].conv.dlg_history # CleanUpCitation(r_tasks[1].conv.dlg_history)

\* every step of the run that can be taken is eventually taken: calls
\* come back and the pool's threads are scheduled
\* (the ground-truth url plays no part in the scheduling of the run)
FairResearchInit == ResearchInit /\ ground_truth_url = ""

FairResearchSpec == FairResearchInit /\ [][ResearchNext]_vars /\ WF_vars(ResearchNext)

\* a conversation task of the run has raised
SomeTaskRaised == \E i \in DOMAIN r_tasks : r_tasks[i].conv.pc = "raised"

\* every submitted task was started and ran until it returned or raised
AllTasksRan ==
    \A i \in DOMAIN r_tasks :
        /\ r_tasks[i].status \in {"running", "collected"}
        /\ r_tasks[i].conv.pc \in {"returned", "raised"}

\* C15: once a conversation task has raised, research never returns and no
\* information table is built; the exception leaves research, and when it
\* does every submitted task has run until it returned or raised (none was
\* cancelled); the exception does reach the caller.
C15_TaskExceptionPropagates ==
    /\ [](SomeTaskRaised => (r_pc # "done" /\ information_table = <<>>))
    /\ []((r_pc = "raised" /\ r_tasks # <<>>) => (SomeTaskRaised /\ AllTasksRan))
    /\ SomeTaskRaised ~> (r_pc = "raised")

\* the first of two tasks raised while the second was still queued; the
\* second then ran two turns and returned before the exception left research
C15_Witness ==
    /\ r_pc = "raised"
    /\ Len(r_tasks) = 2
    /\ max_thread_num = 1
    /\ r_tasks[1].conv.pc = "raised"
    /\ r_tasks[1].conv.raised_by = "topic_expert"
    /\ r_tasks[2].conv.pc = "returned"
    /\ Len(r_tasks[2].conv.dlg_history) = 2
    /\ information_table = <<>>

\* no conversation of the run is running or waiting to run
NoTaskPending ==
    \A i \in DOMAIN r_tasks :
        /\ r_tasks[i].status = "collected"
        /\ r_tasks[i].conv.pc \in {"returned", "raised"}

\* the dialogue turns reported so far
TurnsReported ==
    Cardinality({ k \in DOMAIN r_callbacks : r_callbacks[k] = "dialogue_turn_end" })

\* C16: the information table is built by research only when every
\* conversation task has finished; at the step that builds it and ever
\* after, no task is running, no task changes and no dialogue turn is
\* produced.
C16_TableAfterAllTasks ==
    /\ [](information_table # <<>> => (r_pc = "done" /\ NoTaskPending))
    /\ [][ (information_table' # <<>>) =>
              /\ NoTaskPending
              /\ r_tasks' = r_tasks
              /\ TurnsReported' = TurnsReported ]_vars

\* the table was built after two conversations that ran side by side, each
\* of two turns
C16_Witness ==
    /\ r_pc = "done"
    /\ max_thread_num = 2
    /\ Len(r_tasks) = 2
    /\ Len(information_table) = 2
    /\ TurnsReported = 4
    /\ r_callbacks[Len(r_callbacks)] = "information_gathering_end"

\* ------------------------------------------------------------------------
\* The two fan-out points under one configured thread count
\* ------------------------------------------------------------------------
\* a tree of six sections under the root
TreeWide ==
    [parent |-> <<0, 0, 0, 0, 0, 0>>,
     name |-> <<NameA, NameB, <<"C">>, <<"D">>, <<"E">>, <<"F">>>>]

\* forward is about to be called on the wide tree, every section with
\* content and none synthesized yet, in a run configured with max_thread_num
WideForwardInit ==
    /\ tree = TreeWide
    /\ content = [n \in NodesOf(TreeWide) |-> IF n = 0 THEN {} ELSE {1}]
    /\ synthesize_output = [n \in NodesOf(TreeWide) |-> None]
    /\ need_regenerate_synthesize_output = [n \in NodesOf(TreeWide) |-> TRUE]
    /\ write_section_calls = [n \in NodesOf(TreeWide) |-> 0]
    /\ f_pc = "ready"
    /\ f_pass = 1
    /\ f_gen = [n \in 1 .. Len(TreeWide.parent) |-> TextX]
    /\ f_task = [n \in NodesOf(TreeWide) |-> "idle"]
    /\ f_result = [n \in NodesOf(TreeWide) |-> None]
    /\ node_to_paragraph = {}
    /\ f_doc = None
    /\ f_first_doc = None
    /\ max_thread_num \in 1 .. MaxThreadNum
    /\ r_pc = "idle"
    /\ r_personas = <<>>
    /\ r_tasks = <<>>
    /\ conversations = <<>>
    /\ information_table = <<>>
    /\ r_callbacks = <<>>
    /\ r_disable_perspective = TRUE
    /\ persona_generation_calls = 0
    /\ DigestIdle /\ GenIdle /\ PersonaIdle /\ AnswerIdle /\ ConvIdle
    /\ MainIdle /\ PolishIdle

\* a run is at one fan-out point or the other
FanOutInit == ResearchInit \/ WideForwardInit

FanOutNext == ResearchNext \/ ForwardNext

FanOutSpec == FanOutInit /\ [][FanOutNext]_vars

\* the section tasks that are executing
GeneratingNodes ==
    IF f_pc = "idle" THEN {} ELSE { n \in NodesOf(tree) : f_task[n] = "generating" }

\* C17 as stated: at both fan-out points the number of tasks executing at
\* the same time is at most max_thread_num.
C17_BothWithinThreadNum ==
    /\ Cardinality(BusyWorkers) <= max_thread_num
    /\ Cardinality(GeneratingNodes) <= max_thread_num

\* C17, amended: the persona simulations executing at the same time are at
\* most max_thread_num (and at most the number of personas); the section
\* tasks executing at the same time are at most 5, whatever max_thread_num.
C17_ParallelismBounded ==
    /\ Cardinality(BusyWorkers) <= max_thread_num
    /\ Cardinality(BusyWorkers) <= Len(r_personas)
    /\ Cardinality(GeneratingNodes) <= 5

\* five of six section tasks execute, the sixth waits, in a run configured
\* with two threads
C17_Witness ==
    /\ f_pc = "running"
    /\ max_thread_num = 2
    /\ Cardinality(GeneratingNodes) = 5
    /\ f_task[6] = "queued"

\* two personas, one thread: the second simulation waits for the first
C17_QueuedPersona ==
    /\ r_pc = "gathering"
    /\ max_thread_num = 1
    /\ Len(r_tasks) = 2
    /\ TaskBusy(r_tasks[1])
    /\ r_tasks[2].status = "queued"

\* ------------------------------------------------------------------------
\* What the section tasks of forward write
\* ------------------------------------------------------------------------
\* the nodes whose cache fields this step changes
CacheWritten ==
    { n \in NodesOf(tree) :
        \/ synthesize_output'[n] # synthesize_output[n]
        \/ need_regenerate_synthesize_output'[n] # need_regenerate_synthesize_output[n] }

\* this step is the end of the generation of the task of node n
TaskOfNodeWrites(n) == f_task[n] = "generating" /\ f_task'[n] = "finished"

\* C18: a step of per-node synthesis changes neither the tree structure,
\* nor a node's content, nor the evidence pool; the cache fields it changes
\* are those of one node, and the step is taken by the task synthesizing
\* that node, so no two tasks write the same field.
C18_OnlyOwnCacheWritten ==
    [][ /\ tree' = tree
        /\ content' = content
        /\ info_uuid_to_info_dict' = info_uuid_to_info_dict
        /\ \A n \in CacheWritten : TaskOfNodeWrites(n) /\ CacheWritten = {n} ]_vars

\* two section tasks ran at the same time: the one of node 1 has stored
\* its output, the one of node 2 is still generating
C18_Witness ==
    /\ f_pc = "running"
    /\ f_pass = 1
    /\ f_task[1] = "finished"
    /\ f_task[2] = "generating"
    /\ write_section_calls[1] = 1
    /\ synthesize_output[1] = GeneratorOutput(1)
    /\ ~need_regenerate_synthesize_output[1]
    /\ synthesize_output[2] = None

\* ------------------------------------------------------------------------
\* Which nodes a forward pass generates
\* ------------------------------------------------------------------------
\* the task of node n starts at this step
TaskStarts(n) == f_pc = "running" /\ f_task[n] = "queued" /\ f_task'[n] # "queued"

\* the generator calls made for node n at this step
CallsMade(n) == write_section_calls'[n] - write_section_calls[n]

\* the generation of node n ends at this step with the new output stored
\* and the stale flag cleared
GenerationStored(n) ==
    (f_task[n] = "generating" /\ f_task'[n] = "finished") =>
        /\ synthesize_output'[n] = GeneratorOutput(n)
        /\ ~need_regenerate_synthesize_output'[n]

\* each node has one task per pass, and the generator is called only when
\* a task starts
OneTaskPerNode ==
    /\ \A n \in NodesOf(tree) : ~TaskStarts(n) => CallsMade(n) = 0
    /\ f_pc' = "done" => \A n \in NodesOf(tree) : f_task'[n] = "collected"
    /\ \A n \in NodesOf(tree) : write_section_calls'[n] <= f_pass'

\* node n has content and its cache is absent or marked stale
CacheAbsentOrStale(n) ==
    /\ content[n] # {}
    /\ synthesize_output[n] = None \/ need_regenerate_synthesize_output[n]

\* node n has content and its cache is absent, empty or marked stale
CacheAbsentEmptyOrStale(n) ==
    /\ content[n] # {}
    /\ \/ synthesize_output[n] = None
       \/ synthesize_output[n] = EmptyStr
       \/ need_regenerate_synthesize_output[n]

OwnSuccessors(c) ==
    { AfterWriter(c, utterance) : utterance \in ResearchUtterances }
      \cup { AfterWriterRaises(c), AfterLoop(c) }
      \cup { AfterExpert(c, ground_truth_url, env) :
                env \in ResearchEnvs(ExcludeUrls(ground_truth_url)) }

\* the conversation of task i moves at this step
ConversationMoves(i) == i \in DOMAIN r_tasks' /\ r_tasks'[i].conv # r_tasks[i].conv

PromptedClosing(utterance) == StartsWith(utterance, PromptThanksPhrase)

\* C21: when the writer closes with the phrase of its prompt ("Thank you
\* for your time and valuable insights."), the conversation ends there: the
\* utterance is not passed to the expert and is not recorded as a turn.
C21_PromptedClosingEnds ==
    /\ PromptedClosing(conv.user_utterance) =>
          conv.pc = "returned" /\ conv.expert_calls = Len(conv.dlg_history)
    /\ \A k \in DOMAIN conv.dlg_history :
          ~PromptedClosing(conv.dlg_history[k].user_utterance)

\* ------------------------------------------------------------------------
\* Where a conversation stops
\* ------------------------------------------------------------------------
\* the utterance is empty or starts with "Thank you so much for your help!"
StopsConversation(utterance) ==
    \/ Len(utterance) = 0
    \/ utterance[1] = "Thank you so much for your help!"

\* the writer returns an utterance at this step
WriterReturns ==
    /\ conv.pc = "loop"
    /\ conv'.writer_calls = conv.writer_calls + 1
    /\ conv'.pc # "raised"

\* what the expert and the handler have seen is as it was
NothingRecorded ==
    /\ conv'.expert_calls = conv.expert_calls
    /\ conv'.answer_question_calls = conv.answer_question_calls
    /\ conv'.retriever_calls = conv.retriever_calls
    /\ conv'.dlg_history = conv.dlg_history
    /\ conv'.turn_end_calls = conv.turn_end_calls

\* the utterance the writer returns at this step stops the conversation
\* if it is empty or opens with the thanks, and goes to the expert if not
WriterStepDecides ==
    WriterReturns =>
        /\ NothingRecorded
        /\ conv'.pc = IF StopsConversation(conv'.user_utterance)
                      THEN "returned" ELSE "answering"

\* a conversation that has returned makes no further call and keeps its
\* history
ReturnedIsFinal == conv.pc = "returned" => conv' = conv

\* one turn with the pending utterance is appended and reported once
OneTurnRecorded ==
    /\ Len(conv'.dlg_history) = Len(conv.dlg_history) + 1
    /\ conv'.dlg_history =
          Append(conv.dlg_history, conv'.dlg_history[Len(conv'.dlg_history)])
    /\ conv'.dlg_history[Len(conv'.dlg_history)].user_utterance = conv.user_utterance
    /\ conv'.turn_end_calls = conv.turn_end_calls + 1
    /\ conv'.writer_calls = conv.writer_calls

\* the expert is called at this step
ExpertCalled == conv.pc = "answering"

\* the expert is called for an utterance that does not stop the
\* conversation, and every recorded turn came with one expert call and
\* one report to the handler
OnlyOtherUtterancesAnswered ==
    /\ conv.pc = "answering" => ~StopsConversation(conv.user_utterance)
    /\ \A k \in DOMAIN conv.dlg_history :
          ~StopsConversation(conv.dlg_history[k].user_utterance)
    /\ conv.turn_end_calls = Len(conv.dlg_history)
    /\ conv.expert_calls >= Len(conv.dlg_history)

\* C22 as stated: the conversation stops at the first utterance that is
\* empty or starts with the thanks, with no expert call, retrieval, turn
\* or report for it and no further question; every other utterance gets
\* one expert call, one appended turn and one report to the handler.
C22_EveryOtherUtteranceRecorded ==
    /\ []OnlyOtherUtterancesAnswered
    /\ [][ /\ WriterStepDecides
           /\ ReturnedIsFinal
           /\ ExpertCalled =>
                 /\ conv'.expert_calls = conv.expert_calls + 1
                 /\ OneTurnRecorded ]_vars

\* C22, amended: the conversation stops at the first utterance that is
\* empty or starts with the thanks, with no expert call, retrieval, turn
\* or report for it and no further question; every other utterance gets
\* one expert call, and when that call returns, one appended turn and one
\* report to the handler; when it raises, no turn and no report.
C22_StopsAtFirstClosingUtterance ==
    /\ []OnlyOtherUtterancesAnswered
    /\ [][ /\ WriterStepDecides
           /\ ReturnedIsFinal
           /\ ExpertCalled =>
                 /\ conv'.expert_calls = conv.expert_calls + 1
                 /\ IF conv'.pc = "raised"
                    THEN /\ conv'.dlg_history = conv.dlg_history
                         /\ conv'.turn_end_calls = conv.turn_end_calls
                    ELSE OneTurnRecorded /\ conv'.pc = "loop" ]_vars

\* a conversation with turns to spare returned at the writer's thanks,
\* after one recorded turn
C22_Witness ==
    /\ max_turn = MaxTurn
    /\ conv.pc = "returned"
    /\ conv.user_utterance = <<ThanksPhrase, "Goodbye.">>
    /\ conv.writer_calls = 2
    /\ conv.expert_calls = 1
    /\ Len(conv.dlg_history) = 1
    /\ conv.turn_end_calls = 1

\* ------------------------------------------------------------------------
\* The order of the callbacks of a research run
\* ------------------------------------------------------------------------
StageCallbacksBefore ==
    <<"identify_perspective_start", "identify_perspective_end",
      "information_gathering_start">>

RECURSIVE TurnEndCallsOf(_)
\* the turns the conversations of the tasks have reported
TurnEndCallsOf(tasks) ==
    IF tasks = <<>> THEN 0
    ELSE tasks[Len(tasks)].conv.turn_end_calls
           + TurnEndCallsOf(SubSeq(tasks, 1, Len(tasks) - 1))

\* every turn report made so far came after information_gathering_start
\* and before information_gathering_end
TurnEndsInsideGathering ==
    \A k \in DOMAIN r_callbacks :
        r_callbacks[k] = "dialogue_turn_end" =>
            /\ k > Len(StageCallbacksBefore)
            /\ SubSeq(r_callbacks, 1, Len(StageCallbacksBefore)) = StageCallbacksBefore
            /\ \A j \in 1 .. k : r_callbacks[j] # "information_gathering_end"

\* the callbacks of a run that returned: the three opening stage
\* callbacks, the turn reports of all conversations, the closing callback
ReturnedCallbackOrder ==
    /\ Len(r_callbacks) = Len(StageCallbacksBefore) + TurnEndCallsOf(r_tasks) + 1
    /\ SubSeq(r_callbacks, 1, Len(StageCallbacksBefore)) = StageCallbacksBefore
    /\ \A k \in Len(StageCallbacksBefore) + 1 .. Len(r_callbacks) - 1 :
          r_callbacks[k] = "dialogue_turn_end"
    /\ r_callbacks[Len(r_callbacks)] = "information_gathering_end"

\* with disable_perspective no persona is generated and the one
\* conversation of the run has the empty persona
DisabledRunsOneEmptyPersona ==
    r_disable_perspective =>
        /\ persona_generation_calls = 0
        /\ Len(r_tasks) = 1
        /\ r_tasks[1].persona = ""
        /\ Len(conversations) = 1
        /\ conversations[1][1] = ""

\* C23: in every research run that returns the callbacks are
\* identify_perspective_start, identify_perspective_end,
\* information_gathering_start, the dialogue_turn_end calls of all personas,
\* information_gathering_end, each stage callback once; no dialogue_turn_end
\* comes before the gathering starts or after it ends; the personas are
\* generated at most once, and not at all with disable_perspective, where
\* one conversation with the empty persona is run.
C23_CallbackOrder ==
    /\ persona_generation_calls <= 1
    /\ TurnEndsInsideGathering
    /\ r_pc = "done" =>
          /\ ReturnedCallbackOrder
          /\ DisabledRunsOneEmptyPersona
          /\ ~r_disable_perspective => persona_generation_calls = 1

\* a run with generated personas returned after two conversations that
\* each reported a turn
C23_Witness ==
    /\ r_pc = "done"
    /\ ~r_disable_perspective
    /\ persona_generation_calls = 1
    /\ Len(r_tasks) = 2
    /\ \A i \in DOMAIN r_tasks : r_tasks[i].conv.turn_end_calls >= 1
    /\ Len(r_callbacks) >= 6

\* a run with disable_perspective returned after its one conversation
\* reported a turn
C23_DisabledRunReturned ==
    /\ r_pc = "done"
    /\ r_disable_perspective
    /\ Len(r_tasks) = 1
    /\ r_tasks[1].conv.turn_end_calls >= 1

====
